---- MODULE Spec2Model ----
(***************************************************************************)
(* Curved state-label placement of the Fantasy Map Generator:              *)
(* labels-generator (raycast, findBestRayPair, getLinesAndRatio,           *)
(* checkIfLabelFitsState) and the drawStateLabels renderer that persists   *)
(* the refined labels in pack.labels.                                      *)
(*                                                                         *)
(* Numbers.  Coordinates, lengths and sizes are fixed-point integers with  *)
(* UNIT parts per map unit; Math.cos / Math.sin are a table of UNIT-scaled *)
(* values.  Scores are kept as exact integers: a ray score is 10 times     *)
(* the code's value and a curvature is 900 times the code's value, so a    *)
(* pair score is 9000 times the code's pairScore.                          *)
(***************************************************************************)
EXTENDS Integers, Sequences, FiniteSets, TLC

VARIABLES
  world,        \* which generated map is loaded: pack.cells, pack.features,
                \* graphWidth, graphHeight and the generated fields of
                \* pack.states (pole, cells, name, fullName)
  states,       \* pack.states[s].removed and pack.states[s].lock
  labels,       \* pack.labels
  mode,         \* options.stateLabelsMode
  letterLength, \* result of checkExampleLetterLength (UNIT-scaled)
  queried,      \* out-of-canvas points handed to findClosestCell by the last call
  call,         \* the last operation and its argument
  args,         \* input of the function under test (function specifications)
  ret,          \* its result, NoRet before the call
  cache,        \* HtmlWrapper.cache: the instance stored for an element id
  document      \* the element the page holds for an id, NoElement for none

vars == <<world, states, labels, mode, letterLength, queried, call, args, ret, cache,
          document>>

----------------------------------------------------------------------------
(* Constants of the source *)

ANGLE_STEP == 9
LENGTH_START == 5
LENGTH_STEP == 5
LENGTH_MAX == 300

(* Fixed-point unit of coordinates and of dx, dy *)
UNIT == 100

(* Bounds of the model *)
CellSize == 10    \* side of a grid block of the map, in map units
MaxList == 2      \* longest id list handed to drawStateLabels

NoRet == [none |-> TRUE]

Range(seq) == {seq[k] : k \in 1..Len(seq)}

Abs(n) == IF n < 0 THEN -n ELSE n

Min(a, b) == IF a < b THEN a ELSE b

Max(a, b) == IF a > b THEN a ELSE b

(* JS % on integers: the sign of the result follows the dividend *)
JsMod(a, n) == IF a >= 0 THEN a % n ELSE -((-a) % n)

----------------------------------------------------------------------------
(* Math.cos and Math.sin of whole degrees, UNIT-scaled *)

CosTable ==
  << 100, 100, 100, 100, 100, 100, 99, 99, 99, 99, 98, 98, 98,
     97, 97, 97, 96, 96, 95, 95, 94, 93, 93, 92, 91, 91,
     90, 89, 88, 87, 87, 86, 85, 84, 83, 82, 81, 80, 79,
     78, 77, 75, 74, 73, 72, 71, 69, 68, 67, 66, 64, 63,
     62, 60, 59, 57, 56, 54, 53, 52, 50, 48, 47, 45, 44,
     42, 41, 39, 37, 36, 34, 33, 31, 29, 28, 26, 24, 22,
     21, 19, 17, 16, 14, 12, 10, 9, 7, 5, 3, 2, 0 >>

Cos(angle) ==
  LET a == angle % 360
  IN  IF a <= 90 THEN CosTable[a + 1]
      ELSE IF a <= 180 THEN -CosTable[(180 - a) + 1]
      ELSE IF a <= 270 THEN -CosTable[(a - 180) + 1]
      ELSE CosTable[(360 - a) + 1]

Sin(angle) == Cos(angle + 270)

(* precalculateAngles: for (angle = 0; angle < 360; angle += step) push *)
AngleAt(angle) == [angle |-> angle, dx |-> Cos(angle), dy |-> Sin(angle)]

precalculateAngles(step) ==
  <<>> \o [k \in 1..((360 + step - 1) \div step) |-> AngleAt((k - 1) * step)]

ANGLES == precalculateAngles(ANGLE_STEP)

----------------------------------------------------------------------------
(* The generated maps.  A map is a grid of cols x rows blocks of CellSize   *)
(* map units; block (col, row) is cell row * cols + col.                    *)

CellCentre(k) == (k * CellSize + CellSize \div 2) * UNIT

World1 ==
  [ cols |-> 8, rows |-> 5,
    state |-> << 1, 1, 1, 1, 2, 2, 2, 0,
                 1, 0, 1, 1, 2, 2, 2, 0,
                 1, 1, 1, 2, 2, 2, 2, 0,
                 1, 1, 1, 1, 2, 2, 2, 0,
                 1, 1, 1, 1, 2, 2, 0, 0 >>,
    f     |-> << 1, 1, 1, 1, 1, 1, 1, 2,
                 1, 3, 1, 1, 1, 1, 1, 2,
                 1, 1, 1, 4, 1, 1, 1, 2,
                 1, 1, 1, 1, 1, 1, 1, 2,
                 1, 1, 1, 1, 1, 1, 2, 2 >>,
    features |-> << [type |-> "island", shoreline |-> <<>>, cells |-> 32],
                    [type |-> "ocean", shoreline |-> <<>>, cells |-> 6],
                    [type |-> "lake", shoreline |-> <<1, 8, 10, 17>>, cells |-> 30],
                    [type |-> "lake", shoreline |-> <<11, 18, 20, 27>>, cells |-> 4] >>,
    states |-> << [i |-> 1, pole |-> <<CellCentre(2), CellCentre(2)>>, cells |-> 100,
                   name |-> <<"R", "u", "s">>,
                   fullName |-> <<"R", "u", "s", " ", "E", "m", "p", "i", "r", "e">>],
                  [i |-> 2, pole |-> <<CellCentre(5), CellCentre(2)>>, cells |-> 30,
                   name |-> <<"O", "r", "k", "i", "a">>,
                   fullName |-> <<"K", "i", "n", "g", "d", "o", "m", " ", "o", "f", " ",
                                  "O", "r", "k", "i", "a">>] >>,
    burgs |-> << [i |-> 1, name |-> <<"T", "o", "r">>, group |-> "towns", removed |-> FALSE] >> ]

(* A corridor long enough for a ray to pass every candidate length, and a  *)
(* one-block state at its end whose pole is nearer to the border than the   *)
(* probe offset.                                                            *)
World2 ==
  [ cols |-> 70, rows |-> 1,
    state |-> [c \in 1..70 |-> IF c = 70 THEN 2 ELSE 1],
    f     |-> [c \in 1..70 |-> 1],
    features |-> << [type |-> "island", shoreline |-> <<>>, cells |-> 70] >>,
    states |-> << [i |-> 1, pole |-> <<CellCentre(35), CellCentre(0)>>, cells |-> 30,
                   name |-> <<"A", "n", "g">>,
                   fullName |-> <<"A", "n", "g", "i", "a">>],
                  [i |-> 2, pole |-> <<CellCentre(69), CellCentre(0)>>, cells |-> 250,
                   name |-> <<"U", "r">>,
                   fullName |-> <<"U", "r", " ", "L", "a", "n", "d">>] >>,
    burgs |-> << [i |-> 1, name |-> <<"A", "x">>, group |-> "cities", removed |-> FALSE] >> ]

Worlds == << World1, World2 >>

WorldIds == 1..Len(Worlds)

graphWidth(w) == Worlds[w].cols * CellSize * UNIT

graphHeight(w) == Worlds[w].rows * CellSize * UNIT

StateIds(w) == 1..Len(Worlds[w].states)

(* findClosestCell(x, y, undefined, pack): the cell whose block holds the  *)
(* point, the nearest block for a point on or beyond the last edge          *)
findClosestCell(w, x, y) ==
  LET col == Max(0, Min(Worlds[w].cols - 1, x \div (CellSize * UNIT)))
      row == Max(0, Min(Worlds[w].rows - 1, y \div (CellSize * UNIT)))
  IN  row * Worlds[w].cols + col

(* stateIds[cellId] and features[cells.f[cellId]] of the 0-based cell id *)
cellStateIds(w, cellId) == Worlds[w].state[cellId + 1]

featureOf(w, cellId) == Worlds[w].features[Worlds[w].f[cellId + 1]]

----------------------------------------------------------------------------
(* raycast and its containment predicate *)

OutOfCanvas(w, x, y) == x < 0 \/ x > graphWidth(w) \/ y < 0 \/ y > graphHeight(w)

isInnerLake(w, feature, stateId) ==
  \A k \in 1..Len(feature.shoreline) : cellStateIds(w, feature.shoreline[k]) = stateId

(* mutant: a lake of exactly maxLakeSize cells is not small *)
isSmallLake_Strict(feature, maxLakeSize) == feature.cells * UNIT < maxLakeSize

(* maxLakeSize is UNIT-scaled *)
isSmallLake(feature, maxLakeSize) == feature.cells * UNIT <= maxLakeSize

isInsideState(w, x, y, stateId, maxLakeSize) ==
  IF OutOfCanvas(w, x, y) THEN FALSE
  ELSE LET cellId == findClosestCell(w, x, y)
           feature == featureOf(w, cellId)
       IN  IF feature.type = "lake"
           THEN isInnerLake(w, feature, stateId) \/ isSmallLake(feature, maxLakeSize)
           ELSE cellStateIds(w, cellId) = stateId

(* the points isInsideState hands to findClosestCell *)
isInsideStateLookups(w, x, y) == IF OutOfCanvas(w, x, y) THEN {} ELSE {<<x, y>>}

(* the three sample points of a candidate length: centre, offset1, offset2 *)
SamplePoints(p, length) ==
  LET x == p.x0 + length * p.dx
      y == p.y0 + length * p.dy
  IN  << <<x, y>>,
         <<x + (-p.dy) * p.offset, y + p.dx * p.offset>>,
         <<x + p.dy * p.offset, y + (-p.dx) * p.offset>> >>

(* mutant: the perpendicular probes are not tested *)
inState_CentreOnly(p, length) ==
  LET pts == SamplePoints(p, length)
  IN  isInsideState(p.w, pts[1][1], pts[1][2], p.stateId, p.maxLakeSize)

inState(p, length) ==
  LET pts == SamplePoints(p, length)
  IN  /\ isInsideState(p.w, pts[1][1], pts[1][2], p.stateId, p.maxLakeSize)
      /\ isInsideState(p.w, pts[2][1], pts[2][2], p.stateId, p.maxLakeSize)
      /\ isInsideState(p.w, pts[3][1], pts[3][2], p.stateId, p.maxLakeSize)

LoopContinues(length) == length < LENGTH_MAX

(* mutant: the ray is assigned before the rejection test *)
RayStep_AssignFirst(p, length, scan) ==
  IF ~LoopContinues(length) THEN [scan EXCEPT !.done = TRUE]
  ELSE [ray |-> [length |-> length,
                 x |-> p.x0 + length * p.dx,
                 y |-> p.y0 + length * p.dy],
        done |-> ~inState(p, length)]

(* one iteration of the loop: the loop is done when its condition fails or  *)
(* on break; otherwise the ray is assigned                                  *)
RayStep(p, length, scan) ==
  IF ~LoopContinues(length) \/ ~inState(p, length) THEN [scan EXCEPT !.done = TRUE]
  ELSE [ray |-> [length |-> length,
                 x |-> p.x0 + length * p.dx,
                 y |-> p.y0 + length * p.dy],
        done |-> FALSE]

(* the iterations at the lengths LENGTH_START + k * LENGTH_STEP for k in    *)
(* lo..hi, in order: the first half, then the second half from where the    *)
(* first half left the loop                                                 *)
RECURSIVE RaycastFrom(_, _, _, _)
RaycastFrom(p, lo, hi, scan) ==
  IF scan.done THEN scan
  ELSE IF lo = hi THEN RayStep(p, LENGTH_START + lo * LENGTH_STEP, scan)
  ELSE RaycastFrom(p, (lo + hi) \div 2 + 1, hi,
                   RaycastFrom(p, lo, (lo + hi) \div 2, scan))

(* let ray = {length: 0, x: x0, y: y0}; the loop; return ray *)
raycast(p) ==
  RaycastFrom(p, 0, Max(0, (LENGTH_MAX - LENGTH_START) \div LENGTH_STEP),
              [ray |-> [length |-> 0, x |-> p.x0, y |-> p.y0], done |-> FALSE]).ray

----------------------------------------------------------------------------
(* Ray scoring.  scoreRayAngle is 10 times the code's value; evaluateArc is *)
(* 90 times and scoreCurvature 900 times the code's value.                  *)

(* mutant: the band of 0.6 starts at a horizontality of 0.4 *)
scoreRayAngle_WideBand(angle) ==
  LET normalizedAngle == Abs(JsMod(angle, 180))
      h90 == Abs(normalizedAngle - 90)
  IN  IF h90 = 90 THEN 10
      ELSE IF 100 * h90 >= 75 * 90 THEN 9
      ELSE IF 100 * h90 >= 40 * 90 THEN 6
      ELSE IF 100 * h90 >= 25 * 90 THEN 5
      ELSE IF 100 * h90 >= 15 * 90 THEN 2
      ELSE 1

scoreRayAngle(angle) ==
  LET normalizedAngle == Abs(JsMod(angle, 180))
      h90 == Abs(normalizedAngle - 90)      \* 90 * horizontality
  IN  IF h90 = 90 THEN 10
      ELSE IF 100 * h90 >= 75 * 90 THEN 9
      ELSE IF 100 * h90 >= 50 * 90 THEN 6
      ELSE IF 100 * h90 >= 25 * 90 THEN 5
      ELSE IF 100 * h90 >= 15 * 90 THEN 2
      ELSE 1

getAngleDelta(angle1, angle2) ==
  LET delta == Abs(angle1 - angle2) % 360
  IN  IF delta > 180 THEN 360 - delta ELSE delta

evaluateArc(angle1, angle2) ==
  LET proximity1 == Abs(JsMod(angle1, 180) - 90)
      proximity2 == Abs(JsMod(angle2, 180) - 90)
  IN  90 - Abs(proximity1 - proximity2)

(* mutant: an acute pair is scored by its similarity *)
scoreCurvature_AcuteAllowed(angle1, angle2) ==
  LET delta == getAngleDelta(angle1, angle2)
      similarity == evaluateArc(angle1, angle2)
  IN  IF delta = 180 THEN 900
      ELSE IF delta < 120 THEN 6 * similarity
      ELSE IF delta < 140 THEN 7 * similarity
      ELSE IF delta < 160 THEN 8 * similarity
      ELSE 10 * similarity

(* mutant: the band of 120..140 degrees starts at 125 *)
scoreCurvature_LateBand(angle1, angle2) ==
  LET delta == getAngleDelta(angle1, angle2)
      similarity == evaluateArc(angle1, angle2)
  IN  IF delta = 180 THEN 900
      ELSE IF delta < 90 THEN 0
      ELSE IF delta < 125 THEN 6 * similarity
      ELSE IF delta < 140 THEN 7 * similarity
      ELSE IF delta < 160 THEN 8 * similarity
      ELSE 10 * similarity

(* 900 * scoreCurvature: similarity is 90 * evaluateArc *)
scoreCurvature(angle1, angle2) ==
  LET delta == getAngleDelta(angle1, angle2)
      similarity == evaluateArc(angle1, angle2)
  IN  IF delta = 180 THEN 900
      ELSE IF delta < 90 THEN 0
      ELSE IF delta < 120 THEN 6 * similarity
      ELSE IF delta < 140 THEN 7 * similarity
      ELSE IF delta < 160 THEN 8 * similarity
      ELSE 10 * similarity

(* pairScore of rays[i], rays[j] *)
pairScore(rays, i, j) ==
  LET score1 == rays[i].length * scoreRayAngle(rays[i].angle)
      score2 == rays[j].length * scoreRayAngle(rays[j].angle)
  IN  (score1 + score2) * scoreCurvature(rays[i].angle, rays[j].angle)

(* bestPair is null and bestScore is -Infinity before the first pair *)
NoPair == <<0, 0>>

(* mutant: a later pair of equal score replaces the best pair *)
Better_OrEqual(score, best) == best.pair = NoPair \/ score >= best.score

Better(score, best) == best.pair = NoPair \/ score > best.score

(* one iteration of the inner loop *)
PairStep(rays, i, j, best) ==
  IF Better(pairScore(rays, i, j), best)
  THEN [pair |-> <<i, j>>, score |-> pairScore(rays, i, j)]
  ELSE best

(* the iterations j = lo..hi of the inner loop for rays[i], in order: the   *)
(* first half, then the second half from the best pair the first half left  *)
RECURSIVE InnerLoop(_, _, _, _, _)
InnerLoop(rays, i, lo, hi, best) ==
  IF lo > hi THEN best
  ELSE IF lo = hi THEN PairStep(rays, i, lo, best)
  ELSE LET first == InnerLoop(rays, i, lo, (lo + hi) \div 2, best)
       IN  IF first = best THEN InnerLoop(rays, i, (lo + hi) \div 2 + 1, hi, best)
           ELSE InnerLoop(rays, i, (lo + hi) \div 2 + 1, hi, first)

(* the iterations i = lo..hi of the outer loop, in order *)
RECURSIVE OuterLoop(_, _, _, _)
OuterLoop(rays, lo, hi, best) ==
  IF lo > hi THEN best
  ELSE IF lo = hi THEN InnerLoop(rays, lo, lo + 1, Len(rays), best)
  ELSE LET first == OuterLoop(rays, lo, (lo + hi) \div 2, best)
       IN  IF first = best THEN OuterLoop(rays, (lo + hi) \div 2 + 1, hi, best)
           ELSE OuterLoop(rays, (lo + hi) \div 2 + 1, hi, first)

(* findBestRayPair: the indices <<i, j>> of the returned [rays[i], rays[j]] *)
findBestRayPair(rays) ==
  OuterLoop(rays, 1, Len(rays), [pair |-> NoPair, score |-> 0]).pair

----------------------------------------------------------------------------
(* generateStateLabelsData *)

(* mutant: a state of exactly 40 cells still has no offset *)
getOffsetWidth_Inclusive(cellsNumber) ==
  IF cellsNumber <= 40 THEN 0
  ELSE IF cellsNumber < 200 THEN 5
  ELSE 10

getOffsetWidth(cellsNumber) ==
  IF cellsNumber < 40 THEN 0
  ELSE IF cellsNumber < 200 THEN 5
  ELSE 10

(* maxLakeSize = state.cells / 20, UNIT-scaled *)
MaxLakeSizeOf(cells) == (cells * UNIT) \div 20

(* the rays cast from the pole of state s in every direction of ANGLES *)
(* angles.map(...): return {angle, length, x, y} *)
RayOf(angle, ray) ==
  [angle |-> angle.angle, length |-> ray.length, x |-> ray.x, y |-> ray.y]

RaysOf(w, s) ==
  LET state == Worlds[w].states[s]
      cast(a) == raycast([w |-> w, stateId |-> state.i,
                          x0 |-> state.pole[1], y0 |-> state.pole[2],
                          dx |-> ANGLES[a].dx, dy |-> ANGLES[a].dy,
                          maxLakeSize |-> MaxLakeSizeOf(state.cells),
                          offset |-> getOffsetWidth(state.cells)])
  IN  <<>> \o [a \in 1..Len(ANGLES) |-> RayOf(ANGLES[a], cast(a))]

Reverse(seq) == [k \in 1..Len(seq) |-> seq[Len(seq) + 1 - k]]

(* mutant: the path starts at the pole *)
LabelOf_PoleFirst(state, rays, pair) ==
  LET ray1 == rays[pair[1]]
      ray2 == rays[pair[2]]
      pathPoints == << state.pole, <<ray1.x, ray1.y>>, <<ray2.x, ray2.y>> >>
  IN  [i |-> <<"stateLabel", state.i>>,
       type |-> "state",
       name |-> state.name,
       stateId |-> state.i,
       points |-> IF ray1.x > ray2.x THEN Reverse(pathPoints) ELSE pathPoints,
       startOffset |-> 50,
       fontSize |-> 100,
       letterSpacing |-> 0,
       transform |-> ""]

(* mutant: the path keeps the order of the ray pair *)
LabelOf_Unordered(state, rays, pair) ==
  LET ray1 == rays[pair[1]]
      ray2 == rays[pair[2]]
      pathPoints == << <<ray1.x, ray1.y>>, state.pole, <<ray2.x, ray2.y>> >>
  IN  [i |-> <<"stateLabel", state.i>>,
       type |-> "state",
       name |-> state.name,
       stateId |-> state.i,
       points |-> pathPoints,
       startOffset |-> 50,
       fontSize |-> 100,
       letterSpacing |-> 0,
       transform |-> ""]

(* the label data pushed for a state, given its rays and the chosen pair *)
LabelOf(state, rays, pair) ==
  LET ray1 == rays[pair[1]]
      ray2 == rays[pair[2]]
      pathPoints == << <<ray1.x, ray1.y>>, state.pole, <<ray2.x, ray2.y>> >>
  IN  [i |-> <<"stateLabel", state.i>>,
       type |-> "state",
       name |-> state.name,
       stateId |-> state.i,
       points |-> IF ray1.x > ray2.x THEN Reverse(pathPoints) ELSE pathPoints,
       startOffset |-> 50,
       fontSize |-> 100,
       letterSpacing |-> 0,
       transform |-> ""]

LabelFromRays(state, rays) == LabelOf(state, rays, findBestRayPair(rays))

(* one iteration of the loop over pack.states *)
GenerateLabel(w, s) == LabelFromRays(Worlds[w].states[s], RaysOf(w, s))

GeneratedLabels == [w \in WorldIds |-> [s \in StateIds(w) |-> GenerateLabel(w, s)]]

(* pack.states by index; index 0 is the neutral state *)
StateIndexes(w) == [k \in 1..(Len(Worlds[w].states) + 1) |-> k - 1]

(* mutant: a locked state is regenerated *)
Generates_Locked(st, all, list, s) ==
  /\ s # 0
  /\ ~st[s].removed
  /\ all \/ s \in Range(list)

(* if (!state.i || state.removed || state.lock) continue;                   *)
(* if (stateIds && !stateIds.includes(state.i)) continue;                   *)
Generates(st, all, list, s) ==
  /\ s # 0
  /\ ~st[s].removed
  /\ ~st[s].lock
  /\ all \/ s \in Range(list)

(* all is TRUE for a call without a list *)
generateStateLabelsData(w, st, all, list) ==
  LET ids == SelectSeq(StateIndexes(w), LAMBDA s : Generates(st, all, list, s))
  IN  [k \in 1..Len(ids) |-> GeneratedLabels[w][ids[k]]]

----------------------------------------------------------------------------
(* Measurements of the rendering surface, as pure functions of the path and *)
(* the text: getTotalLength of the text path and getBBox of the text.       *)

RECURSIVE SqrtSearch(_, _, _)
SqrtSearch(n, lo, hi) ==
  IF hi - lo <= 1 THEN lo
  ELSE LET mid == (lo + hi) \div 2
       IN  IF mid * mid <= n THEN SqrtSearch(n, mid, hi) ELSE SqrtSearch(n, lo, mid)

ISqrt(n) == SqrtSearch(n, 0, 46341)

TruncDiv(a, b) == IF a >= 0 THEN a \div b ELSE -((-a) \div b)

(* distance of two points, to a tenth of a map unit *)
Dist(p, q) ==
  LET dx == Abs(q[1] - p[1]) \div 10
      dy == Abs(q[2] - p[2]) \div 10
  IN  10 * ISqrt(dx * dx + dy * dy)

RECURSIVE TotalLengthFrom(_, _)
TotalLengthFrom(points, k) ==
  IF k >= Len(points) THEN 0
  ELSE Dist(points[k], points[k + 1]) + TotalLengthFrom(points, k + 1)

getTotalLength(points) == TotalLengthFrom(points, 1)

(* pathLength = getTotalLength() / letterLength, UNIT-scaled *)
PathLengthOf(points, ll) == (getTotalLength(points) * UNIT) \div ll

(* max(lines.map((line) => line.length)) || 0 *)
LongestLine(lines) ==
  IF Len(lines) = 0 THEN 0
  ELSE CHOOSE n \in {Len(lines[k]) : k \in 1..Len(lines)} :
         \A k \in 1..Len(lines) : Len(lines[k]) <= n

(* width and height of the text block at font-size ratio%: a letter is      *)
(* letterLength wide and a line two letterLengths high                      *)
TextWidth(lines, ratio, ll) == (LongestLine(lines) * ll * ratio) \div 100

TextHeight(lines, ratio, ll) == (Len(lines) * 2 * ll * ratio) \div 100

(* centre of the text laid out at startOffset 50% of its path *)
TextCentre(points) == points[(Len(points) + 1) \div 2]

----------------------------------------------------------------------------
(* getLinesAndRatio *)

(* rn(num / den) = Math.round(num / den), den > 0 *)
rn(num, den) == (2 * num + den) \div (2 * den)

minmax(value, lo, hi) == Min(Max(value, lo), hi)

(* splitInTwo: two lines, broken at the space nearest to the middle (the    *)
(* earlier one of two equally near), at the middle when there is no space   *)
splitInTwo(str) ==
  LET spaces == {k \in 1..Len(str) : str[k] = " "}
      off(k) == Abs(2 * k - (Len(str) + 1))
  IN  IF spaces = {}
      THEN << SubSeq(str, 1, (Len(str) + 1) \div 2),
              SubSeq(str, (Len(str) + 1) \div 2 + 1, Len(str)) >>
      ELSE LET k == CHOOSE k \in spaces :
                      \A m \in spaces : off(k) < off(m) \/ (off(k) = off(m) /\ k <= m)
           IN  << SubSeq(str, 1, k - 1), SubSeq(str, k + 1, Len(str)) >>

getShortOneLine(name, pathLength) ==
  << <<name>>, minmax(rn(pathLength * 60, Len(name) * UNIT), 50, 150) >>

(* mutant: the one-line ratio may reach 180 *)
getFullOneLine_Wide(fullName, pathLength) ==
  << <<fullName>>, minmax(rn(pathLength * 70, Len(fullName) * UNIT), 70, 180) >>

getFullOneLine(fullName, pathLength) ==
  << <<fullName>>, minmax(rn(pathLength * 70, Len(fullName) * UNIT), 70, 170) >>

getFullTwoLines(fullName, pathLength) ==
  LET lines == splitInTwo(fullName)
      longestLineLength == LongestLine(lines)
  IN  << lines, minmax(rn(pathLength * 60, longestLineLength * UNIT), 70, 150) >>

(* mutant: the one-line branch is taken from half a letter per letter on *)
getLinesAndRatio_Eager(md, name, fullName, pathLength) ==
  IF md = "short" THEN getShortOneLine(name, pathLength)
  ELSE IF 2 * pathLength > Len(fullName) * UNIT THEN getFullOneLine(fullName, pathLength)
  ELSE getFullTwoLines(fullName, pathLength)

(* mutant: the one-line branch is taken at pathLength = 2 * length too *)
getLinesAndRatio_AtLeast(md, name, fullName, pathLength) ==
  IF md = "short" THEN getShortOneLine(name, pathLength)
  ELSE IF pathLength >= Len(fullName) * 2 * UNIT THEN getFullOneLine(fullName, pathLength)
  ELSE getFullTwoLines(fullName, pathLength)

(* pathLength is UNIT-scaled *)
getLinesAndRatio(md, name, fullName, pathLength) ==
  IF md = "short" THEN getShortOneLine(name, pathLength)
  ELSE IF pathLength > Len(fullName) * 2 * UNIT THEN getFullOneLine(fullName, pathLength)
  ELSE getFullTwoLines(fullName, pathLength)

----------------------------------------------------------------------------
(* checkIfLabelFitsState.  The angle is given by its UNIT-scaled cosine and *)
(* sine; the result holds the points handed to findClosestCell.             *)

(* Math.atan2(y2 - y1, x2 - x1), as cosine and sine *)
AngleOf(p1, p2) ==
  LET d == Dist(p1, p2)
  IN  IF d = 0 THEN [cos |-> UNIT, sin |-> 0]
      ELSE [cos |-> TruncDiv((p2[1] - p1[1]) * UNIT, d),
            sin |-> TruncDiv((p2[2] - p1[2]) * UNIT, d)]

RotatedPoints(centre, angleRad, halfwidth, halfheight) ==
  LET points == << <<-halfwidth, -halfheight>>, <<halfwidth, -halfheight>>,
                   <<halfwidth, halfheight>>, <<-halfwidth, halfheight>>,
                   <<0, halfheight>>, <<0, -halfheight>> >>
  IN  [k \in 1..6 |->
        << centre[1] + TruncDiv(points[k][1] * angleRad.cos - points[k][2] * angleRad.sin, UNIT),
           centre[2] + TruncDiv(points[k][1] * angleRad.sin + points[k][2] * angleRad.cos, UNIT) >>]

(* mutant: all six points have to be inside *)
RECURSIVE FitsLoop_AllSix(_, _, _, _, _, _)
FitsLoop_AllSix(w, rotatedPoints, k, pointsInside, stateId, lookups) ==
  IF k > Len(rotatedPoints) THEN [fits |-> FALSE, lookups |-> lookups]
  ELSE LET pt == rotatedPoints[k]
           isInside == cellStateIds(w, findClosestCell(w, pt[1], pt[2])) = stateId
           n == IF isInside THEN pointsInside + 1 ELSE pointsInside
       IN  IF n > 5 THEN [fits |-> TRUE, lookups |-> lookups \cup {pt}]
           ELSE FitsLoop_AllSix(w, rotatedPoints, k + 1, n, stateId, lookups \cup {pt})

RECURSIVE FitsLoop(_, _, _, _, _, _)
FitsLoop(w, rotatedPoints, k, pointsInside, stateId, lookups) ==
  IF k > Len(rotatedPoints) THEN [fits |-> FALSE, lookups |-> lookups]
  ELSE LET pt == rotatedPoints[k]
           isInside == cellStateIds(w, findClosestCell(w, pt[1], pt[2])) = stateId
           n == IF isInside THEN pointsInside + 1 ELSE pointsInside
       IN  IF n > 4 THEN [fits |-> TRUE, lookups |-> lookups \cup {pt}]
           ELSE FitsLoop(w, rotatedPoints, k + 1, n, stateId, lookups \cup {pt})

checkIfLabelFitsState(w, centre, angleRad, halfwidth, halfheight, stateId) ==
  FitsLoop(w, RotatedPoints(centre, angleRad, halfwidth, halfheight), 1, 0, stateId, {})

----------------------------------------------------------------------------
(* renderAndRefineLabels *)

Modes == {"auto", "short", "full"}

(* checkExampleLetterLength(): the width of one letter, UNIT-scaled *)
LetterLengths == {5 * UNIT, 10 * UNIT}

RECURSIVE JoinFrom(_, _)
JoinFrom(lines, k) ==
  IF k > Len(lines) THEN <<>>
  ELSE IF k = Len(lines) THEN lines[k]
  ELSE lines[k] \o <<"|">> \o JoinFrom(lines, k + 1)

(* lines.join("|") *)
Join(lines) == JoinFrom(lines, 1)

(* mutant: only the last point moves *)
Prolongate_LastOnly(pathPoints, pathLength, longestLineLength) ==
  IF pathLength # 0 /\ pathLength < longestLineLength * UNIT
  THEN LET p1 == pathPoints[1]
           p2 == pathPoints[Len(pathPoints)]
           grow(d) == TruncDiv(d * (longestLineLength * UNIT - pathLength), 2 * pathLength)
           sx == grow(p2[1] - p1[1])
           sy == grow(p2[2] - p1[2])
       IN  [pathPoints EXCEPT ![Len(pathPoints)] = <<p2[1] + 2 * sx, p2[2] + 2 * sy>>]
  ELSE pathPoints

(* prolongate path if it's too short: the first and the last point move     *)
(* apart by the factor mod = longestLineLength / pathLength                 *)
Prolongate(pathPoints, pathLength, longestLineLength) ==
  IF pathLength # 0 /\ pathLength < longestLineLength * UNIT
  THEN LET p1 == pathPoints[1]
           p2 == pathPoints[Len(pathPoints)]
           grow(d) == TruncDiv(d * (longestLineLength * UNIT - pathLength), 2 * pathLength)
           sx == grow(p2[1] - p1[1])
           sy == grow(p2[2] - p1[2])
       IN  [pathPoints EXCEPT ![1] = <<p1[1] - sx, p1[2] - sy>>,
                              ![Len(pathPoints)] = <<p2[1] + sx, p2[2] + sy>>]
  ELSE pathPoints

(* text and ratio used when the two-line label does not fit *)
Fallback(name, fullName, pathLength) ==
  LET text == IF pathLength * 10 > Len(fullName) * 18 * UNIT THEN fullName ELSE name
  IN  << text, minmax(rn(pathLength * 50, Len(text) * UNIT), 50, 130) >>

(* One iteration of the loop over the generated labels, in the order of the *)
(* code: the path is measured, the lines and the ratio are chosen, the path *)
(* is prolongated, the two-line text is verified and corrected.  The result *)
(* holds the refined label and the points the verifier handed to            *)
(* findClosestCell.                                                         *)
(* mutant: the two-line text is verified in mode "full" too *)
Refined_AnyMode(label, md, lines, ratio, pathPoints, check, fb) ==
  LET verified == Len(lines) > 1
      corrected == verified /\ ~check.fits
  IN  [label |-> [label EXCEPT !.name = IF corrected THEN fb[1] ELSE Join(lines),
                               !.fontSize = IF corrected THEN fb[2] ELSE ratio,
                               !.points = pathPoints],
       lookups |-> IF verified THEN check.lookups ELSE {}]

Refined(label, md, lines, ratio, pathPoints, check, fb) ==
  LET verified == md # "full" /\ Len(lines) > 1
      corrected == verified /\ ~check.fits
  IN  [label |-> [label EXCEPT !.name = IF corrected THEN fb[1] ELSE Join(lines),
                               !.fontSize = IF corrected THEN fb[2] ELSE ratio,
                               !.points = pathPoints],
       lookups |-> IF verified THEN check.lookups ELSE {}]

RenderOnPath(w, label, md, ll, pathLength, lines, ratio, pathPoints) ==
  Refined(label, md, lines, ratio, pathPoints,
          checkIfLabelFitsState(w, TextCentre(pathPoints),
                                AngleOf(pathPoints[1], pathPoints[Len(pathPoints)]),
                                TextWidth(lines, ratio, ll) \div 2,
                                TextHeight(lines, ratio, ll) \div 2,
                                label.stateId),
          Fallback(Worlds[w].states[label.stateId].name,
                   Worlds[w].states[label.stateId].fullName, pathLength))

RenderLines(w, label, md, ll, pathLength, lr) ==
  RenderOnPath(w, label, md, ll, pathLength, lr[1], lr[2],
               Prolongate(label.points, pathLength, LongestLine(lr[1])))

RenderMeasured(w, label, md, ll, pathLength) ==
  RenderLines(w, label, md, ll, pathLength,
              getLinesAndRatio(md, Worlds[w].states[label.stateId].name,
                               Worlds[w].states[label.stateId].fullName, pathLength))

RenderLabel(w, label, md, ll) ==
  RenderMeasured(w, label, md, ll, PathLengthOf(label.points, ll))

RefinedLabels ==
  [w \in WorldIds |-> [s \in StateIds(w) |-> [md \in Modes |-> [ll \in LetterLengths |->
     RenderLabel(w, GeneratedLabels[w][s], md, ll)]]]]

Rendered(w, label, md, ll) ==
  IF label = GeneratedLabels[w][label.stateId] /\ md \in Modes /\ ll \in LetterLengths
  THEN RefinedLabels[w][label.stateId][md][ll]
  ELSE RenderLabel(w, label, md, ll)

(* if (!state.i || state.removed) continue; if (pathPoints.length < 2) continue; *)
Renders(st, label) ==
  /\ label.stateId # 0
  /\ ~st[label.stateId].removed
  /\ ~(Len(label.points) < 2)

renderAndRefineLabels(w, st, generatedLabels, md, ll) ==
  LET kept == SelectSeq(generatedLabels, LAMBDA l : Renders(st, l))
  IN  [k \in 1..Len(kept) |-> Rendered(w, kept[k], md, ll)]

----------------------------------------------------------------------------
(* Points handed to findClosestCell by the rays of a state *)

SampleLookups(p, length) ==
  LET pts == SamplePoints(p, length)
      in(k) == isInsideState(p.w, pts[k][1], pts[k][2], p.stateId, p.maxLakeSize)
      at(k) == isInsideStateLookups(p.w, pts[k][1], pts[k][2])
  IN  at(1) \cup (IF in(1) THEN at(2) \cup (IF in(2) THEN at(3) ELSE {}) ELSE {})

TestedLengths(p) ==
  { l \in LENGTH_START..LENGTH_MAX :
      /\ (l - LENGTH_START) % LENGTH_STEP = 0
      /\ LoopContinues(l)
      /\ l <= raycast(p).length + LENGTH_STEP }

RaycastLookups(w, s) ==
  LET state == Worlds[w].states[s]
      p(a) == [w |-> w, stateId |-> state.i,
               x0 |-> state.pole[1], y0 |-> state.pole[2],
               dx |-> ANGLES[a].dx, dy |-> ANGLES[a].dy,
               maxLakeSize |-> MaxLakeSizeOf(state.cells),
               offset |-> getOffsetWidth(state.cells)]
  IN  UNION { UNION { SampleLookups(p(a), l) : l \in TestedLengths(p(a)) } :
              a \in 1..Len(ANGLES) }

(* those of them that lie outside the canvas *)
RaycastQueried ==
  [w \in WorldIds |-> [s \in StateIds(w) |->
     { pt \in RaycastLookups(w, s) : OutOfCanvas(w, pt[1], pt[2]) }]]

----------------------------------------------------------------------------
(* stateLabelsRenderer: drawStateLabels(list?) *)

labelsToRemove(list) == { <<"stateLabel", stateId>> : stateId \in Range(list) }

(* mutant: the listed call clears like the full one *)
KeepsLabel_AllStates(all, list, l) == l.type # "state"

(* the filter of pack.labels; all is TRUE for a call without a list *)
KeepsLabel(all, list, l) ==
  IF all THEN l.type # "state" ELSE l.i \notin labelsToRemove(list)

----------------------------------------------------------------------------
(* Specification of raycast alone: the parameters are drawn in Init *)

RaycastArgs ==
  { [w |-> w, stateId |-> s, x0 |-> CellCentre(c), y0 |-> CellCentre(r),
     dx |-> ANGLES[a].dx, dy |-> ANGLES[a].dy, angle |-> ANGLES[a].angle,
     maxLakeSize |-> MaxLakeSizeOf(cells), offset |-> o] :
      w \in WorldIds, s \in 1..2, c \in {1, 2, 5, 35}, r \in {0, 2},
      a \in 1..Len(ANGLES), cells \in {30, 100}, o \in {0, 5, 10} }

(* no renderer has been called *)
NoCall == [op |-> "none", all |-> FALSE, list |-> <<>>]

(* static cache = {}, and a page without the elements in question *)
EmptyCache == <<>>

NoElement == <<>>

ElementIds == {"mapInput", "sizeOutput", "toString"}

IdleHtml ==
  /\ cache = EmptyCache
  /\ document = [id \in ElementIds |-> NoElement]

IdleMain ==
  /\ world = 1
  /\ states = <<>>
  /\ labels = <<>>
  /\ mode = "auto"
  /\ letterLength = UNIT
  /\ queried = {}
  /\ call = NoCall
  /\ IdleHtml

InitRaycast ==
  /\ IdleMain
  /\ args \in { p \in RaycastArgs : p.x0 <= graphWidth(p.w) /\ p.y0 <= graphHeight(p.w) }
  /\ ret = NoRet

CallRaycast ==
  /\ ret = NoRet
  /\ ret' = raycast(args)
  /\ UNCHANGED <<world, states, labels, mode, letterLength, queried, call, args, cache,
                 document>>

SpecRaycast == InitRaycast /\ [][CallRaycast]_vars

(* all three sample points of a candidate length are inside the state *)
AllInside(p, length) ==
  \A k \in 1..3 :
    isInsideState(p.w, SamplePoints(p, length)[k][1], SamplePoints(p, length)[k][2],
                  p.stateId, p.maxLakeSize)

(* the candidate lengths the scan visits *)
Candidates == { l \in 1..LENGTH_MAX : l >= LENGTH_START
                                      /\ (l - LENGTH_START) % LENGTH_STEP = 0
                                      /\ LoopContinues(l) }

LastCandidate == CHOOSE l \in Candidates : \A m \in Candidates : m <= l

(* C6: a returned length L > 0 is a candidate length; the three sample      *)
(* points were inside at every candidate length up to L; the endpoint is    *)
(* reference + L * direction; and L is the last candidate or a sample point *)
(* is outside at L + 5 (the scan stopped at the first rejection).           *)
C6_NeverOvershoots ==
  (ret # NoRet /\ ret.length > 0) =>
    /\ ret.length \in Candidates
    /\ \A l \in Candidates : l <= ret.length => AllInside(args, l)
    /\ ret.x = args.x0 + ret.length * args.dx
    /\ ret.y = args.y0 + ret.length * args.dy
    /\ ret.length = LastCandidate \/ ~AllInside(args, ret.length + LENGTH_STEP)

(* a ray stopped by a perpendicular probe while its centre point is inside *)
C6_Witness ==
  /\ ret # NoRet
  /\ ret.length > 0
  /\ ret.length < LastCandidate
  /\ args.offset > 0
  /\ isInsideState(args.w, args.x0 + (ret.length + LENGTH_STEP) * args.dx,
                   args.y0 + (ret.length + LENGTH_STEP) * args.dy,
                   args.stateId, args.maxLakeSize)

(* C7: a sample point outside at the first candidate length gives the      *)
(* zero-length ray at the reference point.                                  *)
C7_ZeroRayAtReference ==
  (ret # NoRet /\ ~AllInside(args, LENGTH_START)) =>
    ret = [length |-> 0, x |-> args.x0, y |-> args.y0]

(* the centre point is inside at length 5 and a perpendicular probe is not *)
C7_Witness ==
  /\ ret # NoRet
  /\ ~AllInside(args, LENGTH_START)
  /\ isInsideState(args.w, args.x0 + LENGTH_START * args.dx,
                   args.y0 + LENGTH_START * args.dy, args.stateId, args.maxLakeSize)
  /\ ret.length = 0

(* C8: when the three sample points are inside at every length             *)
(* 5, 10, ..., 300 the returned length is 300.                              *)
C8_ReachesLengthMax ==
  (ret # NoRet /\ \A k \in 0..59 : AllInside(args, 5 + 5 * k)) => ret.length = 300

----------------------------------------------------------------------------
(* Specification of isInsideState alone: a point on or around the canvas,   *)
(* a target state and its cell count are drawn in Init.                     *)

MaxRays == 3      \* longest ray list handed to findBestRayPair alone

InsideArgs ==
  { [w |-> w, x |-> 5 * kx * UNIT, y |-> 5 * ky * UNIT, stateId |-> s, cells |-> cells] :
      w \in WorldIds, kx \in -1..17, ky \in -1..11, s \in 1..2,
      cells \in {30, 79, 80, 81, 600} }

InitInside ==
  /\ IdleMain
  /\ args \in InsideArgs
  /\ ret = NoRet

CallInside ==
  /\ ret = NoRet
  /\ ret' = [inside |-> isInsideState(args.w, args.x, args.y, args.stateId,
                                      MaxLakeSizeOf(args.cells))]
  /\ UNCHANGED <<world, states, labels, mode, letterLength, queried, call, args, cache,
                 document>>

SpecInside == InitInside /\ [][CallInside]_vars

InCanvas(w, x, y) ==
  /\ 0 <= x /\ x <= Worlds[w].cols * CellSize * UNIT
  /\ 0 <= y /\ y <= Worlds[w].rows * CellSize * UNIT

(* every shoreline cell of the lake belongs to the state *)
Enclosed(w, lake, stateId) ==
  \A c \in Range(lake.shoreline) : Worlds[w].state[c + 1] = stateId

(* C9: for an in-canvas point whose cell is in a lake, the point is inside  *)
(* iff the lake is enclosed by the state or its cell count is at most       *)
(* state.cells / 20, whatever state is stored for the lake cell; for a      *)
(* cell in no lake, iff the cell's state is the target state.               *)
C9_Containment ==
  (ret # NoRet /\ InCanvas(args.w, args.x, args.y)) =>
    LET cellId == findClosestCell(args.w, args.x, args.y)
        feature == Worlds[args.w].features[Worlds[args.w].f[cellId + 1]]
    IN  IF feature.type = "lake"
        THEN ret.inside <=> (Enclosed(args.w, feature, args.stateId)
                             \/ 20 * feature.cells <= args.cells)
        ELSE ret.inside <=> (Worlds[args.w].state[cellId + 1] = args.stateId)

(* a lake of exactly state.cells / 20 cells, not enclosed, whose cell is    *)
(* stored under another state, counts as inside                             *)
C9_Witness ==
  /\ ret # NoRet
  /\ InCanvas(args.w, args.x, args.y)
  /\ LET cellId == findClosestCell(args.w, args.x, args.y)
         feature == Worlds[args.w].features[Worlds[args.w].f[cellId + 1]]
     IN  /\ feature.type = "lake"
         /\ ~Enclosed(args.w, feature, args.stateId)
         /\ 20 * feature.cells = args.cells
         /\ Worlds[args.w].state[cellId + 1] # args.stateId
  /\ ret.inside

----------------------------------------------------------------------------
(* Specification of findBestRayPair alone: the rays are drawn in Init *)

RayChoices ==
  { [angle |-> a, length |-> l, x |-> l * Cos(a), y |-> l * Sin(a)] :
      a \in {0, 45, 99, 180, 270}, l \in {0, 10} }

RECURSIVE SeqsOf(_, _)
SeqsOf(S, n) ==
  IF n = 0 THEN {<<>>}
  ELSE {Append(q, e) : q \in SeqsOf(S, n - 1), e \in S}

InitPair ==
  /\ IdleMain
  /\ args \in UNION {SeqsOf(RayChoices, n) : n \in 2..MaxRays}
  /\ ret = NoRet

CallPair ==
  /\ ret = NoRet
  /\ ret' = findBestRayPair(args)
  /\ UNCHANGED <<world, states, labels, mode, letterLength, queried, call, args, cache,
                 document>>

SpecPair == InitPair /\ [][CallPair]_vars

Pairs(rays) == {pr \in (1..Len(rays)) \X (1..Len(rays)) : pr[1] < pr[2]}

(* scan order: i ascending, then j ascending *)
ScannedBefore(a, b) == a[1] < b[1] \/ (a[1] = b[1] /\ a[2] < b[2])

(* C10: the returned pair (i, j), i < j, has a pairScore at least that of   *)
(* every pair, and no pair scanned before it has the same pairScore.        *)
C10_BestPairFirstFound ==
  ret # NoRet =>
    /\ ret \in Pairs(args)
    /\ \A pr \in Pairs(args) :
         /\ pairScore(args, ret[1], ret[2]) >= pairScore(args, pr[1], pr[2])
         /\ pairScore(args, ret[1], ret[2]) = pairScore(args, pr[1], pr[2])
              => ~ScannedBefore(pr, ret)

(* two different pairs share the greatest, positive, score *)
C10_Witness ==
  /\ ret # NoRet
  /\ pairScore(args, ret[1], ret[2]) > 0
  /\ \E pr \in Pairs(args) :
       /\ pr # ret
       /\ pairScore(args, pr[1], pr[2]) = pairScore(args, ret[1], ret[2])


----------------------------------------------------------------------------
(* The label store under the renderers.  pack.labels is regenerated by      *)
(* drawStateLabels() and drawStateLabels(list) and by drawBurgLabels();     *)
(* the editors lock, unlock and remove states and set the label mode.       *)

StoredPoints(lab, label) ==
  IF \E k \in 1..Len(lab) : lab[k].i = label.i
  THEN [label EXCEPT !.points = lab[CHOOSE k \in 1..Len(lab) : lab[k].i = label.i].points]
  ELSE label

(* pack.labels.filter(...) and pack.labels.push(...refinedLabels); with it  *)
(* the out-of-canvas points the call handed to findClosestCell              *)
Stored(w, lab, all, list, generatedLabels, refinedLabels) ==
  [labels |-> SelectSeq(lab, LAMBDA l : KeepsLabel(all, list, l))
                \o [k \in 1..Len(refinedLabels) |-> refinedLabels[k].label],
   queried |-> { pt \in UNION { refinedLabels[k].lookups : k \in 1..Len(refinedLabels) }
                          \cup UNION { RaycastQueried[w][generatedLabels[k].stateId] :
                                       k \in 1..Len(generatedLabels) } :
                 OutOfCanvas(w, pt[1], pt[2]) }]

StoreAfter(w, st, lab, md, ll, all, list, generatedLabels) ==
  Stored(w, lab, all, list, generatedLabels,
         renderAndRefineLabels(w, st, generatedLabels, md, ll))

(* mutant: the path of a state that has a label is taken from the store *)
drawStateLabels_FromStored(w, st, lab, md, ll, all, list) ==
  StoreAfter(w, st, lab, md, ll, all, list,
             [k \in 1..Len(generateStateLabelsData(w, st, all, list)) |->
                StoredPoints(lab, generateStateLabelsData(w, st, all, list)[k])])

drawStateLabels(w, st, lab, md, ll, all, list) ==
  StoreAfter(w, st, lab, md, ll, all, list, generateStateLabelsData(w, st, all, list))

(* generateBurgLabelsData: one group of burgs per map *)
generateBurgLabelsData(w) ==
  LET burgsInGroup == SelectSeq(Worlds[w].burgs, LAMBDA b : ~b.removed)
  IN  [k \in 1..Len(burgsInGroup) |->
        [i |-> <<"burgLabel", burgsInGroup[k].i>>,
         type |-> "burg",
         name |-> burgsInGroup[k].name,
         group |-> burgsInGroup[k].group,
         burgId |-> burgsInGroup[k].i]]

(* the id lists a caller passes: any sequence of at most MaxList ids, the   *)
(* neutral state 0 included                                                 *)
ListIds == 0..Len(Worlds[world].states)

Lists == UNION { SeqsOf(ListIds, n) : n \in 0..MaxList }

Init ==
  /\ world \in WorldIds
  /\ states = [s \in StateIds(world) |-> [removed |-> FALSE, lock |-> FALSE]]
  /\ labels = <<>>
  /\ mode \in Modes
  /\ letterLength \in LetterLengths
  /\ queried = {}
  /\ call = NoCall
  /\ args = NoRet
  /\ ret = NoRet
  /\ IdleHtml

(* call records the renderer or editor operation of the step *)
DrawStateLabels(all, list) ==
  /\ labels' = drawStateLabels(world, states, labels, mode, letterLength, all, list).labels
  /\ queried' = drawStateLabels(world, states, labels, mode, letterLength, all, list).queried
  /\ call' = [op |-> "drawStateLabels", all |-> all, list |-> list]
  /\ UNCHANGED <<world, states, mode, letterLength, args, ret, cache,
                 document>>

DrawAll == DrawStateLabels(TRUE, <<>>)

DrawList == \E list \in Lists : DrawStateLabels(FALSE, list)

DrawBurgLabels ==
  /\ labels' = SelectSeq(labels, LAMBDA label : label.type # "burg")
                 \o generateBurgLabelsData(world)
  /\ queried' = {}
  /\ call' = [NoCall EXCEPT !.op = "drawBurgLabels"]
  /\ UNCHANGED <<world, states, mode, letterLength, args, ret, cache,
                 document>>

ToggleLock ==
  \E s \in StateIds(world) :
    /\ states' = [states EXCEPT ![s].lock = ~@]
    /\ call' = [NoCall EXCEPT !.op = "lock"]
    /\ UNCHANGED <<world, labels, mode, letterLength, queried, args, ret, cache,
                 document>>

RemoveState ==
  \E s \in StateIds(world) :
    /\ ~states[s].removed
    /\ states' = [states EXCEPT ![s].removed = TRUE]
    /\ call' = [NoCall EXCEPT !.op = "remove"]
    /\ UNCHANGED <<world, labels, mode, letterLength, queried, args, ret, cache,
                 document>>

Next ==
  \/ DrawAll
  \/ DrawList
  \/ DrawBurgLabels
  \/ ToggleLock
  \/ RemoveState

Spec == Init /\ [][Next]_vars

----------------------------------------------------------------------------
(* Claims about the label store *)

ListedLabel(l, list) == \E k \in 1..Len(list) : l.i = <<"stateLabel", list[k]>>

Untouched(lab, list) == SelectSeq(lab, LAMBDA l : ~ListedLabel(l, list))

(* C1: drawStateLabels(list) leaves every entry of pack.labels whose id is  *)
(* not stateLabel<id> for an id of the list unchanged: the same entries     *)
(* with the same field values in the same relative order, before and after. *)
C1_ListedCallFrame ==
  [][(call'.op = "drawStateLabels" /\ ~call'.all)
       => Untouched(labels', call'.list) = Untouched(labels, call'.list)]_vars

(* a listed call has regenerated the label of a listed state while the      *)
(* store holds the label of an unlisted state and a burg label              *)
C1_Witness ==
  /\ call.op = "drawStateLabels"
  /\ ~call.all
  /\ \E k \in 1..Len(labels) : ListedLabel(labels[k], call.list)
  /\ \E k \in 1..Len(labels) :
       labels[k].type = "state" /\ ~ListedLabel(labels[k], call.list)
  /\ \E k \in 1..Len(labels) : labels[k].type = "burg"

HasLabel(lab, s) ==
  \E k \in 1..Len(lab) : lab[k].type = "state" /\ lab[k].stateId = s

(* C2: a regeneration call, full or listed, keeps a label in pack.labels    *)
(* for every state that is not removed and had a label before the call.     *)
C2_LabelSurvivesRegeneration ==
  [][call'.op = "drawStateLabels"
       => \A s \in StateIds(world) :
            (~states[s].removed /\ HasLabel(labels, s)) => HasLabel(labels', s)]_vars

LabelOfState(lab, s) ==
  lab[CHOOSE k \in 1..Len(lab) : lab[k].type = "state" /\ lab[k].stateId = s]

SameRegenerated(first, second, w, st, all, list) ==
  \A s \in StateIds(w) :
    Generates(st, all, list, s) =>
      /\ HasLabel(first, s)
      /\ HasLabel(second, s)
      /\ LabelOfState(second, s).points = LabelOfState(first, s).points
      /\ LabelOfState(second, s).fontSize = LabelOfState(first, s).fontSize

(* C3: after a drawStateLabels call, the same call run again on its result, *)
(* with the states, the map, the label mode and the letter length as they   *)
(* are, leaves every regenerated state with the same points and fontSize.   *)
C3_RegenerationIdempotent ==
  call.op = "drawStateLabels" =>
    SameRegenerated(labels,
                    drawStateLabels(world, states, labels, mode, letterLength,
                                    call.all, call.list).labels,
                    world, states, call.all, call.list)

(* a call has regenerated a state whose path was prolongated *)
C3_Witness ==
  /\ call.op = "drawStateLabels"
  /\ \E s \in StateIds(world) :
       /\ Generates(states, call.all, call.list, s)
       /\ HasLabel(labels, s)
       /\ LabelOfState(labels, s).points # GeneratedLabels[world][s].points

(* C5: no renderer call hands findClosestCell a point outside the canvas,   *)
(* neither from a ray nor from the verifier.                                *)
C5_NoLookupOutOfCanvas == queried = {}

----------------------------------------------------------------------------
(* Specification of generateStateLabelsData alone *)

StateFlags(w) == [StateIds(w) -> [removed : BOOLEAN, lock : BOOLEAN]]

GenerateArgs ==
  { [w |-> w, st |-> st, all |-> all, list |-> list] :
      w \in WorldIds, st \in UNION { StateFlags(v) : v \in WorldIds },
      all \in BOOLEAN, list \in UNION { SeqsOf(0..2, n) : n \in 0..MaxList } }

InitGenerate ==
  /\ IdleMain
  /\ args \in { a \in GenerateArgs : a.st \in StateFlags(a.w) /\ (a.all => a.list = <<>>) }
  /\ ret = NoRet

CallGenerate ==
  /\ ret = NoRet
  /\ ret' = [labels |-> generateStateLabelsData(args.w, args.st, args.all, args.list)]
  /\ UNCHANGED <<world, states, labels, mode, letterLength, queried, call, args, cache,
                 document>>

SpecGenerate == InitGenerate /\ [][CallGenerate]_vars

(* the states whose rays all have length 0 *)
ZeroRayStates ==
  [w \in WorldIds |->
     { s \in StateIds(w) : \A a \in 1..Len(ANGLES) : RaysOf(w, s)[a].length = 0 }]

(* C4: generateStateLabelsData produces no label for a state whose rays all *)
(* have length 0.                                                           *)
C4_ZeroRayStateSkipped ==
  ret # NoRet =>
    \A k \in 1..Len(ret.labels) : ret.labels[k].stateId \notin ZeroRayStates[args.w]

----------------------------------------------------------------------------
(* Specification of scoreCurvature alone, over the whole-degree angles of   *)
(* precalculateAngles                                                       *)

InitCurvature ==
  /\ IdleMain
  /\ args \in { <<a1, a2>> : a1 \in 0..359, a2 \in 0..359 }
  /\ ret = NoRet

CallCurvature ==
  /\ ret = NoRet
  /\ ret' = [score |-> scoreCurvature(args[1], args[2])]
  /\ UNCHANGED <<world, states, labels, mode, letterLength, queried, call, args, cache,
                 document>>

SpecCurvature == InitCurvature /\ [][CallCurvature]_vars

(* the angular difference normalised to [0, 180] *)
NormalisedDelta(a1, a2) ==
  CHOOSE d \in 0..180 : \E k \in -1..1 : d = Abs(a1 - a2 + 360 * k)

(* 90 * s, s = 1 - |p1 - p2| / 90, p = |angle mod 180 - 90| *)
Similarity90(a1, a2) == 90 - Abs(Abs((a1 % 180) - 90) - Abs((a2 % 180) - 90))

RayAt(a, l) == [angle |-> a, length |-> l, x |-> l * Cos(a), y |-> l * Sin(a)]

(* C11: scoreCurvature is exactly 1 at delta = 180, exactly 0 below 90 (and *)
(* then the pair score is 0 whatever the ray lengths), 0.6 s on [90, 120),  *)
(* 0.7 s on [120, 140), 0.8 s on [140, 160) and s on [160, 180); the scores *)
(* are held 900-fold.                                                       *)
C11_CurvatureBands ==
  ret # NoRet =>
    LET d == NormalisedDelta(args[1], args[2])
        s == Similarity90(args[1], args[2])
    IN  /\ d = 180 => ret.score = 900
        /\ d < 90 => /\ ret.score = 0
                     /\ \A l1, l2 \in {0, 10, LENGTH_MAX} :
                          pairScore(<<RayAt(args[1], l1), RayAt(args[2], l2)>>, 1, 2) = 0
        /\ (90 <= d /\ d < 120) => ret.score = 6 * s
        /\ (120 <= d /\ d < 140) => ret.score = 7 * s
        /\ (140 <= d /\ d < 160) => ret.score = 8 * s
        /\ (160 <= d /\ d < 180) => ret.score = 10 * s

(* a pair at the lower edge of the 0.7 band with a similarity below 1 *)
C11_Witness ==
  /\ ret # NoRet
  /\ NormalisedDelta(args[1], args[2]) = 120
  /\ Similarity90(args[1], args[2]) < 90
  /\ ret.score = 7 * Similarity90(args[1], args[2])

----------------------------------------------------------------------------
(* Claims about the stored paths                                            *)

StateLabels(lab) == { k \in 1..Len(lab) : lab[k].type = "state" }

Ascending(points) == Len(points) >= 2 /\ points[1][1] <= points[Len(points)][1]

(* C12: every state label stored in pack.labels has a path of at least two  *)
(* points whose first point is not to the right of its last point, after    *)
(* generation and after the stretch of the renderer.                        *)
C12_PathAscending ==
  \A k \in StateLabels(labels) : Ascending(labels[k].points)

(* a stored label whose path was stretched by the renderer *)
C12_Witness ==
  \E k \in StateLabels(labels) :
    /\ labels[k].points # GeneratedLabels[world][labels[k].stateId].points
    /\ labels[k].points[1][1] < GeneratedLabels[world][labels[k].stateId].points[1][1]
    /\ Ascending(labels[k].points)

----------------------------------------------------------------------------
(* Specification of one iteration of renderAndRefineLabels from the         *)
(* measured path on: getLinesAndRatio, then the verification and the        *)
(* correction of the two-line text.  The answer of checkIfLabelFitsState is *)
(* an input.                                                                *)

StateNames ==
  UNION { { <<Worlds[w].states[s].name, Worlds[w].states[s].fullName>> :
              s \in 1..Len(Worlds[w].states) } : w \in WorldIds }

MaxPath == 40

(* measured path lengths, UNIT-scaled: quarters of a letter up to MaxPath   *)
(* letters and the neighbourhood of the thresholds 2 and 1.8 per letter     *)
PathLengths(fullName) ==
  { k * (UNIT \div 4) : k \in 0..(4 * MaxPath) }
    \cup { Len(fullName) * 2 * UNIT + d : d \in {-1, 1} }
    \cup { (Len(fullName) * 18 * UNIT) \div 10 + d : d \in {-1, 0, 1} }

RefineArgs ==
  UNION { { [mode |-> md, name |-> n[1], fullName |-> n[2], pathLength |-> pl, fits |-> f] :
              md \in Modes \cup {"long"}, pl \in PathLengths(n[2]), f \in BOOLEAN } :
          n \in StateNames }

(* the generated label of a state of that name, on a straight path *)
PlainLabel(name) ==
  [i |-> <<"stateLabel", 1>>, type |-> "state", name |-> name, stateId |-> 1,
   points |-> << <<0, 0>>, <<UNIT, 0>>, <<2 * UNIT, 0>> >>,
   startOffset |-> 50, fontSize |-> 100, letterSpacing |-> 0, transform |-> ""]

(* the answer of a call of checkIfLabelFitsState: its verdict and the       *)
(* points it resolved, of which there is always one at least                *)
VerifierAnswer(fits) == [fits |-> fits, lookups |-> { <<UNIT, 0>> }]

RefineStep(a, lr) ==
  [lines |-> lr[1],
   ratio |-> lr[2],
   refined |-> Refined(PlainLabel(a.name), a.mode, lr[1], lr[2],
                       Prolongate(PlainLabel(a.name).points, a.pathLength,
                                  LongestLine(lr[1])),
                       VerifierAnswer(a.fits),
                       Fallback(a.name, a.fullName, a.pathLength))]

InitRefine ==
  /\ IdleMain
  /\ args \in RefineArgs
  /\ ret = NoRet

CallRefine ==
  /\ ret = NoRet
  /\ ret' = RefineStep(args, getLinesAndRatio(args.mode, args.name, args.fullName,
                                              args.pathLength))
  /\ UNCHANGED <<world, states, labels, mode, letterLength, queried, call, args, cache,
                 document>>

SpecRefine == InitRefine /\ [][CallRefine]_vars

(* C13: mode "short" yields the one line of the short name; any other mode  *)
(* yields the one line of the full name iff pathLength > 2 * len(fullName)  *)
(* strictly, and the lines of splitInTwo(fullName) at and below it.         *)
C13_BranchSelection ==
  ret # NoRet =>
    /\ args.mode = "short" => ret.lines = <<args.name>>
    /\ args.mode # "short" =>
         /\ ret.lines = <<args.fullName>> <=> args.pathLength > 2 * Len(args.fullName) * UNIT
         /\ args.pathLength <= 2 * Len(args.fullName) * UNIT
              => ret.lines = splitInTwo(args.fullName)

(* the path is exactly twice as long as the full name: two lines *)
C13_Witness ==
  /\ ret # NoRet
  /\ args.mode = "auto"
  /\ args.pathLength = 2 * Len(args.fullName) * UNIT
  /\ Len(ret.lines) = 2

(* r = clamp(round(num / den), lo, hi), rounding halves up *)
IsClampedRound(r, num, den, lo, hi) ==
  IF 2 * num + den < 2 * lo * den THEN r = lo
  ELSE IF 2 * num + den >= 2 * (hi + 1) * den THEN r = hi
  ELSE 2 * r * den <= 2 * num + den /\ 2 * num + den < 2 * (r + 1) * den

(* C14: the ratio is clamp(round(k * pathLength / len), lo, hi) with        *)
(* (k, lo, hi, len) = (60, 50, 150, short name) in short mode, (70, 70,     *)
(* 170, full name) in the one-line branch and (60, 70, 150, longer line) in *)
(* the two-line branch; the persisted fontSize lies in [50, 170].           *)
C14_RatioClamped ==
  ret # NoRet =>
    /\ args.mode = "short" =>
         IsClampedRound(ret.ratio, 60 * args.pathLength, Len(args.name) * UNIT, 50, 150)
    /\ (args.mode # "short" /\ Len(ret.lines) = 1) =>
         IsClampedRound(ret.ratio, 70 * args.pathLength, Len(args.fullName) * UNIT, 70, 170)
    /\ (args.mode # "short" /\ Len(ret.lines) = 2) =>
         IsClampedRound(ret.ratio, 60 * args.pathLength, LongestLine(ret.lines) * UNIT, 70, 150)
    /\ ret.refined.label.fontSize \in 50..170

(* an unclamped two-line ratio, persisted as it is *)
C14_Witness ==
  /\ ret # NoRet
  /\ args.mode = "auto"
  /\ Len(ret.lines) = 2
  /\ ret.ratio \in 71..149
  /\ args.fits
  /\ ret.refined.label.fontSize = ret.ratio

----------------------------------------------------------------------------
(* Specification of checkIfLabelFitsState alone, on the first map           *)

CentreStep == 5

BoxAngles == { [cos |-> Cos(a), sin |-> Sin(a)] : a \in {0, 45, 90, 135} }

FitsArgs ==
  { [centre |-> <<cx * CentreStep * UNIT, cy * CentreStep * UNIT>>, angleRad |-> an,
     halfwidth |-> hw * UNIT, halfheight |-> hh * UNIT, stateId |-> s] :
      cx \in 0..(graphWidth(1) \div (CentreStep * UNIT)),
      cy \in 0..(graphHeight(1) \div (CentreStep * UNIT)),
      an \in BoxAngles, hw \in {8, 15}, hh \in {4, 8}, s \in StateIds(1) }

InitFits ==
  /\ IdleMain
  /\ args \in FitsArgs
  /\ ret = NoRet

CallFits ==
  /\ ret = NoRet
  /\ ret' = checkIfLabelFitsState(1, args.centre, args.angleRad, args.halfwidth,
                                  args.halfheight, args.stateId)
  /\ UNCHANGED <<world, states, labels, mode, letterLength, queried, call, args, cache,
                 document>>

SpecFits == InitFits /\ [][CallFits]_vars

(* the indexes of the rotated sample points that resolve to the state *)
PointsInside(a) ==
  LET rotatedPoints == RotatedPoints(a.centre, a.angleRad, a.halfwidth, a.halfheight)
  IN  { k \in 1..6 :
          cellStateIds(1, findClosestCell(1, rotatedPoints[k][1], rotatedPoints[k][2]))
            = a.stateId }

(* C15: checkIfLabelFitsState returns true iff at least 5 of the 6 rotated  *)
(* sample points resolve to the target state, whichever of them they are.   *)
C15_FiveOfSix ==
  ret # NoRet => (ret.fits <=> Cardinality(PointsInside(args)) >= 5)

(* the first point visited is the only one outside, and the label fits *)
C15_Witness ==
  /\ ret # NoRet
  /\ PointsInside(args) = 2..6
  /\ ret.fits

----------------------------------------------------------------------------
(* Claims about the verification and the correction of the two-line text    *)

VerifierInvoked == ret.refined.lookups # {}

JoinedLines(lines) ==
  IF Len(lines) = 1 THEN lines[1] ELSE lines[1] \o <<"|">> \o lines[2]

FullNameChosen == 10 * args.pathLength > 18 * Len(args.fullName) * UNIT

(* C16: the verifier is invoked only for two lines in a mode other than     *)
(* "full"; when it fails the persisted name is the full name if pathLength  *)
(* > 1.8 * len(fullName) and the short name otherwise; when it succeeds or  *)
(* is not invoked the persisted name is the lines joined with "|" and the   *)
(* persisted fontSize is the ratio of the fitter.                           *)
C16_VerifyAndCorrect ==
  ret # NoRet =>
    /\ VerifierInvoked => (Len(ret.lines) = 2 /\ args.mode # "full")
    /\ (VerifierInvoked /\ ~args.fits) =>
         ret.refined.label.name = IF FullNameChosen THEN args.fullName ELSE args.name
    /\ (~VerifierInvoked \/ args.fits) =>
         /\ ret.refined.label.name = JoinedLines(ret.lines)
         /\ ret.refined.label.fontSize = ret.ratio

(* the two-line text failed the verification and the full name replaced it *)
C16_Witness ==
  /\ ret # NoRet
  /\ VerifierInvoked
  /\ ~args.fits
  /\ FullNameChosen
  /\ ret.refined.label.name = args.fullName

(* C17: when the verifier fails the persisted fontSize is                   *)
(* clamp(round(70 * pathLength / len(fullName)), 70, 170) if the full name  *)
(* was chosen and clamp(round(60 * pathLength / len(shortName)), 50, 150)   *)
(* if the short name was chosen.                                            *)
C17_CorrectedByOneLineFormula ==
  (ret # NoRet /\ VerifierInvoked /\ ~args.fits) =>
    IF FullNameChosen
    THEN IsClampedRound(ret.refined.label.fontSize, 70 * args.pathLength,
                        Len(args.fullName) * UNIT, 70, 170)
    ELSE IsClampedRound(ret.refined.label.fontSize, 60 * args.pathLength,
                        Len(args.name) * UNIT, 50, 150)

----------------------------------------------------------------------------
(* Specification of the loop of precalculateAngles, one iteration a step.   *)
(* The frame holds the array, the loop variable and whether the function    *)
(* has returned.  The function has no other exit than the return after the  *)
(* loop.                                                                    *)

MaxStep == 12

(* no more iterations than MaxAngles are followed; a positive step needs    *)
(* 360 at most                                                              *)
MaxAngles == 400

Steps == (-1..MaxStep) \cup {360, 361}

(* mutant: the loop runs while angle <= 360 *)
AnglesLoopContinues_Closed(angle) == angle <= 360

(* angle < 360 *)
AnglesLoopContinues(angle) == angle < 360

InitAngles ==
  /\ IdleMain
  /\ args \in { [step |-> s] : s \in Steps }
  /\ ret = [angles |-> <<>>, angle |-> 0, returned |-> FALSE]

(* angles.push({ angle, dx, dy }); angle += step *)
PushAngle ==
  /\ ~ret.returned
  /\ AnglesLoopContinues(ret.angle)
  /\ Len(ret.angles) < MaxAngles
  /\ ret' = [ret EXCEPT !.angles = Append(@, AngleAt(ret.angle)),
                        !.angle = @ + args.step]
  /\ UNCHANGED <<world, states, labels, mode, letterLength, queried, call, args, cache,
                 document>>

(* return angles *)
ReturnAngles ==
  /\ ~ret.returned
  /\ ~AnglesLoopContinues(ret.angle)
  /\ ret' = [ret EXCEPT !.returned = TRUE]
  /\ UNCHANGED <<world, states, labels, mode, letterLength, queried, call, args, cache,
                 document>>

NextAngles == PushAngle \/ ReturnAngles

SpecAngles == InitAngles /\ [][NextAngles]_vars

CeilDiv(a, b) == (a + b - 1) \div b

AnglesFrame == "returned" \in DOMAIN ret

(* C18: for step > 0 precalculateAngles returns exactly ceil(360 / step)    *)
(* directions with the angles 0, step, 2 * step, ..., strictly increasing   *)
(* and below 360 (40 for the step 9); the result is a function of step.     *)
C18_AnglesOfStep ==
  (AnglesFrame /\ ret.returned /\ args.step > 0) =>
    /\ Len(ret.angles) = CeilDiv(360, args.step)
    /\ \A k \in 1..Len(ret.angles) :
         /\ ret.angles[k].angle = (k - 1) * args.step
         /\ ret.angles[k].angle < 360
         /\ k > 1 => ret.angles[k - 1].angle < ret.angles[k].angle
    /\ ret.angles[1].angle = 0
    /\ args.step = ANGLE_STEP => Len(ret.angles) = 40
    /\ ret.angles = precalculateAngles(args.step)

(* the call with a step that does not divide 360 has returned *)
C18_Witness ==
  /\ AnglesFrame
  /\ ret.returned
  /\ args.step = 7
  /\ Len(ret.angles) = 52

(* C19: with step <= 0 precalculateAngles neither loops nor returns         *)
(* directions: no direction is ever pushed and the array is not returned.   *)
C19_NonPositiveStepRejected ==
  (AnglesFrame /\ args.step <= 0) => (ret.angles = <<>> /\ ~ret.returned)

----------------------------------------------------------------------------
(* each of probabilityUtils.  Its tests are at hand, its body is not: the   *)
(* predicate is modelled as the remainder test the tests describe.          *)

MaxEach == 12

MaxIndex == 24

(* mutant: true every n times starting from n - 1 *)
each_FromLast(n) == [i \in 0..MaxIndex |-> (i + 1) % n = 0]

each(n) == [i \in 0..MaxIndex |-> i % n = 0]

(* expect(each(n)(i)).toBe(expected) *)
EachExpectations ==
  { <<3, 0, TRUE>>, <<3, 1, FALSE>>, <<3, 2, FALSE>>, <<3, 3, TRUE>>,
    <<3, 4, FALSE>>, <<3, 5, FALSE>>, <<3, 6, TRUE>>,
    <<1, 0, TRUE>>, <<1, 1, TRUE>>, <<1, 2, TRUE>>,
    <<10, 0, TRUE>>, <<10, 5, FALSE>>, <<10, 10, TRUE>>, <<10, 20, TRUE>> }

InitEach ==
  /\ IdleMain
  /\ args \in { [n |-> n, i |-> i] : n \in 1..MaxEach, i \in 0..MaxIndex }
  /\ ret = NoRet

CallEach ==
  /\ ret = NoRet
  /\ ret' = [value |-> each(args.n)[args.i]]
  /\ UNCHANGED <<world, states, labels, mode, letterLength, queried, call, args, cache,
                 document>>

SpecEach == InitEach /\ [][CallEach]_vars

(* C20: each(n) is true for the index i exactly when i is a multiple of n:  *)
(* at 0 for every n, at every i for n = 1; the expectations of the tests    *)
(* are met.                                                                 *)
C20_EachMultiple ==
  ret # NoRet =>
    /\ ret.value <=> \E k \in 0..args.i : args.i = k * args.n
    /\ args.i = 0 => ret.value
    /\ args.n = 1 => ret.value
    /\ \A e \in EachExpectations : (e[1] = args.n /\ e[2] = args.i) => ret.value = e[3]

(* a positive multiple of a step above 1 *)
C20_Witness ==
  /\ ret # NoRet
  /\ args.n = 10
  /\ args.i = 20
  /\ ret.value

----------------------------------------------------------------------------
(* The containment check of the verifier against the one of raycast         *)

(* the rotated sample points, in the canvas, that isInsideState of raycast  *)
(* counts as inside the state                                               *)
PointsInsideByRaycast(a) ==
  LET rotatedPoints == RotatedPoints(a.centre, a.angleRad, a.halfwidth, a.halfheight)
  IN  { k \in 1..6 :
          /\ InCanvas(1, rotatedPoints[k][1], rotatedPoints[k][2])
          /\ isInsideState(1, rotatedPoints[k][1], rotatedPoints[k][2], a.stateId,
                           MaxLakeSizeOf(Worlds[1].states[a.stateId].cells)) }

(* C21: an in-canvas sample point that isInsideState of raycast counts as   *)
(* inside (a point in an enclosed or a small lake included) is counted as   *)
(* inside by checkIfLabelFitsState: five such points make the label fit.    *)
C21_SameLakeHandling ==
  ret # NoRet =>
    /\ PointsInsideByRaycast(args) \subseteq PointsInside(args)
    /\ Cardinality(PointsInsideByRaycast(args)) >= 5 => ret.fits

----------------------------------------------------------------------------
(* Specification of the prolongation of the path alone                      *)

StretchEnds ==
  { <<0, 0>>, <<10 * UNIT, 40 * UNIT>>, <<50 * UNIT, 0>>, <<35 * UNIT, -25 * UNIT>>,
    <<20 * UNIT, 10 * UNIT>> }

StretchArgs ==
  { [points |-> <<p1, <<20 * UNIT, 10 * UNIT>>, p2>>, pathLength |-> pl, longest |-> n] :
      p1 \in StretchEnds, p2 \in StretchEnds,
      pl \in {0, UNIT \div 2, UNIT, 3 * UNIT, 4 * UNIT, 10 * UNIT, 16 * UNIT},
      n \in {2, 4, 10, 16} }

InitStretch ==
  /\ IdleMain
  /\ args \in { a \in StretchArgs : a.points[1][1] <= a.points[3][1] }
  /\ ret = NoRet

CallStretch ==
  /\ ret = NoRet
  /\ ret' = [points |-> Prolongate(args.points, args.pathLength, args.longest)]
  /\ UNCHANGED <<world, states, labels, mode, letterLength, queried, call, args, cache,
                 document>>

SpecStretch == InitStretch /\ [][CallStretch]_vars

Stretches == 0 < args.pathLength /\ args.pathLength < args.longest * UNIT

(* the vector v stretched by longest / pathLength, up to the rounding of    *)
(* one coordinate step at each end                                          *)
IsStretched(nv, v) ==
  Abs(nv * args.pathLength - v * args.longest * UNIT) < 2 * args.pathLength

(* C22: when 0 < pathLength < longest line length the first and the last    *)
(* point are replaced so that their midpoint is unchanged and the vector    *)
(* between them is multiplied by longestLineLength / pathLength; otherwise  *)
(* the points are unchanged; the points in between are never moved.         *)
C22_CorrectiveStretch ==
  ret # NoRet =>
    /\ Len(ret.points) = Len(args.points)
    /\ ret.points[2] = args.points[2]
    /\ Stretches =>
         /\ ret.points[1][1] + ret.points[3][1] = args.points[1][1] + args.points[3][1]
         /\ ret.points[1][2] + ret.points[3][2] = args.points[1][2] + args.points[3][2]
         /\ IsStretched(ret.points[3][1] - ret.points[1][1],
                        args.points[3][1] - args.points[1][1])
         /\ IsStretched(ret.points[3][2] - ret.points[1][2],
                        args.points[3][2] - args.points[1][2])
    /\ ~Stretches => ret.points = args.points

(* a path of 4 letters under a line of 10: both ends have moved *)
C22_Witness ==
  /\ ret # NoRet
  /\ args.pathLength = 4 * UNIT
  /\ args.longest = 10
  /\ ret.points[1] # args.points[1]
  /\ ret.points[3] # args.points[3]

----------------------------------------------------------------------------
(* C23: every state label persisted by drawStateLabels has exactly three    *)
(* path points and the middle one is the pole of its state, whether the     *)
(* path was reversed at generation or stretched by the renderer.            *)
C23_PoleIsMiddlePoint ==
  \A k \in StateLabels(labels) :
    /\ Len(labels[k].points) = 3
    /\ labels[k].points[2] = Worlds[world].states[labels[k].stateId].pole

(* a stored label with both ends moved by the stretch, the pole in between *)
C23_Witness ==
  \E k \in StateLabels(labels) :
    /\ labels[k].points[1] # GeneratedLabels[world][labels[k].stateId].points[1]
    /\ labels[k].points[3] # GeneratedLabels[world][labels[k].stateId].points[3]
    /\ labels[k].points[2] = Worlds[world].states[labels[k].stateId].pole

----------------------------------------------------------------------------
(* Specification of the probe offset: getOffsetWidth(state.cells) and the   *)
(* acceptance test of raycast at one candidate length with that offset      *)

CellCounts == {0, 1, 39, 40, 41, 100, 199, 200, 201, 600}

OffsetArgs ==
  { [w |-> w, stateId |-> s, x0 |-> CellCentre(c), y0 |-> CellCentre(0),
     dx |-> ANGLES[a].dx, dy |-> ANGLES[a].dy, cells |-> n, length |-> l] :
      w \in WorldIds, s \in 1..2, c \in {2, 5}, a \in 1..Len(ANGLES),
      n \in CellCounts, l \in {LENGTH_START, LENGTH_START + 2 * LENGTH_STEP} }

(* the parameters generateStateLabelsData passes to raycast *)
RaycastParams(a) ==
  [w |-> a.w, stateId |-> a.stateId, x0 |-> a.x0, y0 |-> a.y0, dx |-> a.dx, dy |-> a.dy,
   maxLakeSize |-> MaxLakeSizeOf(a.cells), offset |-> getOffsetWidth(a.cells)]

InitOffset ==
  /\ IdleMain
  /\ args \in OffsetArgs
  /\ ret = NoRet

CallOffset ==
  /\ ret = NoRet
  /\ ret' = [offset |-> RaycastParams(args).offset,
             points |-> SamplePoints(RaycastParams(args), args.length),
             inState |-> inState(RaycastParams(args), args.length)]
  /\ UNCHANGED <<world, states, labels, mode, letterLength, queried, call, args, cache,
                 document>>

SpecOffset == InitOffset /\ [][CallOffset]_vars

(* C24: the probe offset is 0 below 40 cells, 5 from 40 to 199 cells and 10 *)
(* from 200 cells on; with offset 0 the three sample points coincide and a  *)
(* candidate length is accepted iff its centre point is inside.             *)
C24_OffsetByCells ==
  ret # NoRet =>
    /\ args.cells < 40 => ret.offset = 0
    /\ (40 <= args.cells /\ args.cells < 200) => ret.offset = 5
    /\ args.cells >= 200 => ret.offset = 10
    /\ ret.offset = 0 =>
         /\ ret.points[2] = ret.points[1]
         /\ ret.points[3] = ret.points[1]
         /\ ret.inState <=> isInsideState(args.w, args.x0 + args.length * args.dx,
                                          args.y0 + args.length * args.dy, args.stateId,
                                          MaxLakeSizeOf(args.cells))

(* a state of 39 cells: no offset, the centre point decides alone *)
C24_Witness ==
  /\ ret # NoRet
  /\ args.cells = 39
  /\ ret.offset = 0
  /\ ret.inState

----------------------------------------------------------------------------
(* Specification of scoreRayAngle alone, and of the score of a ray in a     *)
(* pair with a zero-length ray in the opposite direction (curvature 1)      *)

RayLengths == {0, LENGTH_START, 2 * LENGTH_START, LENGTH_MAX - LENGTH_STEP}

InitRayAngle ==
  /\ IdleMain
  /\ args \in { [angle |-> a, length |-> l] : a \in 0..359, l \in RayLengths }
  /\ ret = NoRet

CallRayAngle ==
  /\ ret = NoRet
  /\ ret' = [score |-> scoreRayAngle(args.angle),
             turned |-> scoreRayAngle(args.angle + 180),
             pair |-> pairScore(<<RayAt(args.angle, args.length),
                                  RayAt(args.angle + 180, 0)>>, 1, 2)]
  /\ UNCHANGED <<world, states, labels, mode, letterLength, queried, call, args, cache,
                 document>>

SpecRayAngle == InitRayAngle /\ [][CallRayAngle]_vars

(* 180 * h, h = |angle mod 180 - 90| / 90 *)
Horizontality180(angle) == 2 * Abs((angle % 180) - 90)

(* 10 times the score of the band of h *)
BandOf(h180) ==
  IF h180 = 180 THEN 10
  ELSE IF h180 >= 135 THEN 9
  ELSE IF h180 >= 90 THEN 6
  ELSE IF h180 >= 45 THEN 5
  ELSE IF h180 >= 27 THEN 2
  ELSE 1

(* C25: scoreRayAngle is 1.0 at h = 1, 0.9 on [0.75, 1), 0.6 on [0.5,       *)
(* 0.75), 0.5 on [0.25, 0.5), 0.2 on [0.15, 0.25) and 0.1 below; it is the  *)
(* same for angle + 180; the score of a ray is length * scoreRayAngle.      *)
C25_HorizontalityBands ==
  ret # NoRet =>
    /\ ret.score = BandOf(Horizontality180(args.angle))
    /\ ret.turned = ret.score
    /\ ret.pair = 900 * args.length * BandOf(Horizontality180(args.angle))

(* the lower edge of the 0.2 band is not reached by a whole degree: 77 is   *)
(* poor, 76 is in the band                                                  *)
C25_Witness ==
  /\ ret # NoRet
  /\ args.angle = 76
  /\ args.length > 0
  /\ ret.score = 2
  /\ ret.pair = 1800 * args.length

----------------------------------------------------------------------------
(* Specification of findBestRayPair on the 40 directions of ANGLES: a few   *)
(* rays are positive, the others have length 0                              *)

MaxPositive == 2

PositiveLengths == {LENGTH_START, LENGTH_MAX - LENGTH_STEP}

(* the rays of every direction, of the lengths given for the directions in  *)
(* the domain of len and of length 0 elsewhere                              *)
RaysOfLengths(len) ==
  <<>> \o [a \in 1..Len(ANGLES) |->
             RayAt(ANGLES[a].angle, IF a \in DOMAIN len THEN len[a] ELSE 0)]

DirectionStride == 3

(* every DirectionStride-th direction *)
StridedDirections == { a \in 1..Len(ANGLES) : (a - 1) % DirectionStride = 0 }

(* no direction, any one direction, or MaxPositive strided directions at    *)
(* most                                                                     *)
PositiveDirections ==
  { {} } \cup { {a} : a \in 1..Len(ANGLES) }
         \cup { Range(q) : q \in SeqsOf(StridedDirections, MaxPositive) }

RayProfiles == UNION { [D -> PositiveLengths] : D \in PositiveDirections }

InitBestPair ==
  /\ IdleMain
  /\ args \in { [rays |-> RaysOfLengths(len)] : len \in RayProfiles }
  /\ ret = NoRet

CallBestPair ==
  /\ ret = NoRet
  /\ ret' = [pair |-> findBestRayPair(args.rays)]
  /\ UNCHANGED <<world, states, labels, mode, letterLength, queried, call, args, cache,
                 document>>

SpecBestPair == InitBestPair /\ [][CallBestPair]_vars

SomeRayPositive == \E a \in 1..Len(args.rays) : args.rays[a].length > 0

(* C26: if a ray is positive the returned pair has a strictly positive      *)
(* pairScore and an angular delta of 90 degrees at least; an acute pair is  *)
(* returned only when every ray has length 0.                               *)
C26_PositivePairChosen ==
  (ret # NoRet /\ SomeRayPositive) =>
    /\ pairScore(args.rays, ret.pair[1], ret.pair[2]) > 0
    /\ NormalisedDelta(args.rays[ret.pair[1]].angle, args.rays[ret.pair[2]].angle) >= 90

(* one positive ray only: it is returned with a zero-length partner *)
C26_Witness ==
  /\ ret # NoRet
  /\ Cardinality({ a \in 1..Len(args.rays) : args.rays[a].length > 0 }) = 1
  /\ args.rays[ret.pair[1]].length + args.rays[ret.pair[2]].length > 0
  /\ NormalisedDelta(args.rays[ret.pair[1]].angle, args.rays[ret.pair[2]].angle) >= 90

----------------------------------------------------------------------------
(* Claims about the labels a call of drawStateLabels inserts                *)

(* the entries a call leaves in place: all but the state labels for a call  *)
(* without a list, all but the listed ones for a call with a list           *)
LeftInPlace(lab, c) ==
  IF c.all THEN SelectSeq(lab, LAMBDA l : l.type # "state")
  ELSE Untouched(lab, c.list)

AtMostOneLabelPerState ==
  \A j, k \in StateLabels(labels) : labels[j].i = labels[k].i => j = k

InsertedForEligibleStates ==
  \A k \in (Len(LeftInPlace(labels, call')) + 1)..Len(labels') :
    /\ labels'[k].type = "state"
    /\ labels'[k].i = <<"stateLabel", labels'[k].stateId>>
    /\ ~states[labels'[k].stateId].removed
    /\ ~states[labels'[k].stateId].lock
    /\ call'.all \/ \E n \in 1..Len(call'.list) : call'.list[n] = labels'[k].stateId

(* C27: after any sequence of drawStateLabels() and drawStateLabels(list)   *)
(* calls pack.labels holds at most one label stateLabel<s> for each state   *)
(* s, and every label a call inserts belongs to a state that is not         *)
(* removed, not locked and, for a call with a list, in the list.            *)
C27_OneLabelPerEligibleState ==
  /\ []AtMostOneLabelPerState
  /\ [][call'.op = "drawStateLabels" => InsertedForEligibleStates]_vars

(* a call whose list names one state twice, while another state is locked   *)
(* or removed, has left one label of the listed state                       *)
C27_Witness ==
  /\ call.op = "drawStateLabels"
  /\ ~call.all
  /\ Len(call.list) = 2
  /\ call.list[1] = call.list[2]
  /\ call.list[1] # 0
  /\ Cardinality({ k \in StateLabels(labels) : labels[k].stateId = call.list[1] }) = 1
  /\ \E s \in StateIds(world) : states[s].lock \/ states[s].removed

----------------------------------------------------------------------------
(* C28: the path is never stretched in the one-line branch of the full      *)
(* name (pathLength > 2 * len(fullName)): the path points are unchanged; in *)
(* a mode other than "short" a stretched path has a two-line layout.        *)
C28_NoStretchOnOneFullLine ==
  (ret # NoRet /\ args.mode # "short") =>
    /\ args.pathLength > 2 * Len(args.fullName) * UNIT
         => /\ ret.lines = <<args.fullName>>
            /\ ret.refined.label.points = PlainLabel(args.name).points
    /\ ret.refined.label.points # PlainLabel(args.name).points => Len(ret.lines) = 2

(* the full name on one line of a path just above twice its length *)
C28_Witness ==
  /\ ret # NoRet
  /\ args.mode = "auto"
  /\ args.pathLength = 2 * Len(args.fullName) * UNIT + 1
  /\ ret.lines = <<args.fullName>>
  /\ ret.refined.label.points = PlainLabel(args.name).points

(* in the same mode a path shorter than the longer of two lines is stretched *)
C28_StretchedTwoLines ==
  /\ ret # NoRet
  /\ args.mode = "auto"
  /\ Len(ret.lines) = 2
  /\ ret.refined.label.points # PlainLabel(args.name).points

----------------------------------------------------------------------------
(* LabelsModule: the store of window.Labels over pack.labels.  args holds   *)
(* the operation called last (with the id for updateLabel), ret what it     *)
(* returned.                                                                *)

MaxLabels == 3

Groups == {"towns", "cities"}

LabelTypes == {"state", "burg", "custom"}

StateLabelInputs == { [stateId |-> 1, text |-> "a"] }

BurgLabelInputs == { [burgId |-> 1, group |-> "towns", text |-> "a"] }

CustomLabelInputs == { [group |-> "cities", text |-> "a"] }

(* updates of updateLabel: a text alone, and a text with an id and a type   *)
LabelUpdates == { [text |-> "b"], [i |-> 7, type |-> "custom", text |-> "b"] }

LabelIds(lab) == { lab[k].i : k \in 1..Len(lab) }

(* mutant: the next id is the number of labels *)
getNextId_Length(lab) == Len(lab)

(* existingIds is sorted ascending: its last element is the greatest id *)
getNextId(lab) ==
  IF Len(lab) = 0 THEN 0
  ELSE LET existingIds == LabelIds(lab)
           last == CHOOSE m \in existingIds : \A n \in existingIds : n <= m
           free == { id \in 0..(last - 1) : id \notin existingIds }
       IN  IF free # {} THEN CHOOSE id \in free : \A n \in free : id <= n
           ELSE last + 1

(* { i: this.getNextId(), type, ...data } *)
NewLabel(lab, type, data) ==
  [f \in {"i", "type"} \cup DOMAIN data |->
     IF f \in DOMAIN data THEN data[f]
     ELSE IF f = "i" THEN getNextId(lab)
     ELSE type]

(* Object.assign(label, updates, { i: label.i, type: label.type }) *)
Assigned(label, updates) ==
  [f \in DOMAIN label \cup DOMAIN updates |->
     IF f \in {"i", "type"} THEN label[f]
     ELSE IF f \in DOMAIN updates THEN updates[f]
     ELSE label[f]]

(* findIndex: the first index whose label satisfies Test, 0 for none *)
findIndex(lab, Test(_)) ==
  IF \E k \in 1..Len(lab) : Test(lab[k])
  THEN CHOOSE k \in 1..Len(lab) : Test(lab[k]) /\ \A j \in 1..(k - 1) : ~Test(lab[j])
  ELSE 0

(* if (index !== -1) pack.labels.splice(index, 1) *)
splice(lab, index) ==
  IF index = 0 THEN lab
  ELSE SubSeq(lab, 1, index - 1) \o SubSeq(lab, index + 1, Len(lab))

InGroup(l, group) == (l.type = "burg" \/ l.type = "custom") /\ l.group = group

StoreFrame == UNCHANGED <<world, states, mode, letterLength, queried, call, cache,
                 document>>

InitLabels ==
  /\ IdleMain
  /\ args = NoRet
  /\ ret = NoRet

AddLabel(op, type, data) ==
  /\ Len(labels) < MaxLabels
  /\ labels' = Append(labels, NewLabel(labels, type, data))
  /\ args' = [op |-> op]
  /\ ret' = NewLabel(labels, type, data)
  /\ StoreFrame

addStateLabel == \E data \in StateLabelInputs : AddLabel("addStateLabel", "state", data)

addBurgLabel == \E data \in BurgLabelInputs : AddLabel("addBurgLabel", "burg", data)

addCustomLabel == \E data \in CustomLabelInputs : AddLabel("addCustomLabel", "custom", data)

updateLabel ==
  \E id \in 0..MaxLabels, updates \in LabelUpdates :
    /\ labels' = IF findIndex(labels, LAMBDA l : l.i = id) = 0 THEN labels
                 ELSE [labels EXCEPT ![findIndex(labels, LAMBDA l : l.i = id)] =
                                        Assigned(@, updates)]
    /\ args' = [op |-> "updateLabel", id |-> id]
    /\ ret' = NoRet
    /\ StoreFrame

removeLabel ==
  \E id \in 0..MaxLabels :
    /\ labels' = splice(labels, findIndex(labels, LAMBDA l : l.i = id))
    /\ args' = [op |-> "removeLabel"]
    /\ ret' = NoRet
    /\ StoreFrame

removeStateLabel ==
  \E stateId \in 1..2 :
    /\ labels' = splice(labels, findIndex(labels,
                          LAMBDA l : l.type = "state" /\ l.stateId = stateId))
    /\ args' = [op |-> "removeStateLabel"]
    /\ ret' = NoRet
    /\ StoreFrame

removeBurgLabel ==
  \E burgId \in 1..2 :
    /\ labels' = splice(labels, findIndex(labels,
                          LAMBDA l : l.type = "burg" /\ l.burgId = burgId))
    /\ args' = [op |-> "removeBurgLabel"]
    /\ ret' = NoRet
    /\ StoreFrame

removeByType ==
  \E type \in LabelTypes :
    /\ labels' = SelectSeq(labels, LAMBDA l : l.type # type)
    /\ args' = [op |-> "removeByType"]
    /\ ret' = NoRet
    /\ StoreFrame

removeByGroup ==
  \E group \in Groups :
    /\ labels' = SelectSeq(labels, LAMBDA l : ~InGroup(l, group))
    /\ args' = [op |-> "removeByGroup"]
    /\ ret' = NoRet
    /\ StoreFrame

clear ==
  /\ labels' = <<>>
  /\ args' = [op |-> "clear"]
  /\ ret' = NoRet
  /\ StoreFrame

NextLabels ==
  \/ addStateLabel
  \/ addBurgLabel
  \/ addCustomLabel
  \/ updateLabel
  \/ removeLabel
  \/ removeStateLabel
  \/ removeBurgLabel
  \/ removeByType
  \/ removeByGroup
  \/ clear

SpecLabels == InitLabels /\ [][NextLabels]_vars

UniqueIds == \A j, k \in 1..Len(labels) : labels[j].i = labels[k].i => j = k

IsAdd(op) == op \in {"addStateLabel", "addBurgLabel", "addCustomLabel"}

(* the smallest non-negative integer that is the id of no label *)
SmallestFreeId(lab) ==
  CHOOSE id \in 0..Len(lab) :
    /\ \A k \in 1..Len(lab) : lab[k].i # id
    /\ \A n \in 0..(id - 1) : \E k \in 1..Len(lab) : lab[k].i = n

AddAssignsSmallestFreeId ==
  IsAdd(args'.op) =>
    /\ Len(labels') = Len(labels) + 1
    /\ SubSeq(labels', 1, Len(labels)) = labels
    /\ labels'[Len(labels')].i = SmallestFreeId(labels)

UpdateKeepsIdAndType ==
  args'.op = "updateLabel" =>
    /\ Len(labels') = Len(labels)
    /\ \A k \in 1..Len(labels) :
         /\ labels'[k].i = labels[k].i
         /\ labels'[k].type = labels[k].type
         /\ labels[k].i # args'.id => labels'[k] = labels[k]
    /\ (\A k \in 1..Len(labels) : labels[k].i # args'.id) => labels' = labels

(* C29: no two labels of the store share an id; each add assigns the        *)
(* smallest non-negative integer not in use (freed ids are reused);         *)
(* updateLabel never changes the i or the type of a label, whatever the     *)
(* updates hold, and leaves the store as it is for an unknown id.           *)
C29_LabelsStore ==
  /\ []UniqueIds
  /\ [][AddAssignsSmallestFreeId /\ UpdateKeepsIdAndType]_vars

(* a freed id below the greatest one has been assigned again *)
C29_Witness ==
  /\ args # NoRet
  /\ IsAdd(args.op)
  /\ Len(labels) = 3
  /\ labels[3].i = 0
  /\ labels[1].i = 1
  /\ labels[2].i = 2

----------------------------------------------------------------------------
(* HtmlWrapper: the constructor over the static cache and the page.  args   *)
(* holds the id of the last construction, ret its outcome: the object the   *)
(* new expression yields, whether byId was called, whether it threw.        *)

MaxElements == 2

(* the elements that can carry an id, one after the other *)
Elements(id) == { <<id, n>> : n \in 1..MaxElements }

Undefined == [undefined |-> TRUE]

(* cache is a plain object: a name of Object.prototype reads as the         *)
(* inherited member                                                         *)
ObjectPrototypeKeys == {"toString"}

(* HtmlWrapper.cache[id] *)
cacheGet(c, id) ==
  IF id \in DOMAIN c THEN c[id]
  ELSE IF id \in ObjectPrototypeKeys THEN [inherited |-> id]
  ELSE Undefined

(* HtmlWrapper.cache[id] = this *)
cacheSet(c, id, instance) ==
  [k \in DOMAIN c \cup {id} |-> IF k = id THEN instance ELSE c[k]]

byId(doc, id) == doc[id]

(* mutant: the instance is cached before the element is tested *)
constructor_CacheFirst(c, doc, id) ==
  IF cacheGet(c, id) # Undefined
  THEN [instance |-> cacheGet(c, id), lookup |-> FALSE, error |-> FALSE, cache |-> c]
  ELSE IF byId(doc, id) = NoElement
  THEN [instance |-> Undefined, lookup |-> TRUE, error |-> TRUE,
        cache |-> cacheSet(c, id, [element |-> byId(doc, id)])]
  ELSE [instance |-> [element |-> byId(doc, id)], lookup |-> TRUE, error |-> FALSE,
        cache |-> cacheSet(c, id, [element |-> byId(doc, id)])]

(* new HtmlWrapper(id): the outcome and the cache it leaves *)
constructor(c, doc, id) ==
  IF cacheGet(c, id) # Undefined
  THEN [instance |-> cacheGet(c, id), lookup |-> FALSE, error |-> FALSE, cache |-> c]
  ELSE IF byId(doc, id) = NoElement
  THEN [instance |-> Undefined, lookup |-> TRUE, error |-> TRUE, cache |-> c]
  ELSE [instance |-> [element |-> byId(doc, id)], lookup |-> TRUE, error |-> FALSE,
        cache |-> cacheSet(c, id, [element |-> byId(doc, id)])]

InitHtml ==
  /\ world = 1
  /\ states = <<>>
  /\ labels = <<>>
  /\ mode = "auto"
  /\ letterLength = UNIT
  /\ queried = {}
  /\ call = NoCall
  /\ args = NoRet
  /\ ret = NoRet
  /\ cache = EmptyCache
  /\ document \in [ElementIds -> {NoElement}] \cup { [id \in ElementIds |-> <<id, 1>>] }

HtmlFrame == UNCHANGED <<world, states, labels, mode, letterLength, queried, call>>

Construct ==
  \E id \in ElementIds :
    /\ args' = [id |-> id]
    /\ ret' = [f \in {"instance", "lookup", "error"} |-> constructor(cache, document, id)[f]]
    /\ cache' = constructor(cache, document, id).cache
    /\ UNCHANGED document
    /\ HtmlFrame

(* the page gets an element of the id *)
InsertElement ==
  \E id \in ElementIds : \E e \in Elements(id) :
    /\ document[id] = NoElement
    /\ document' = [document EXCEPT ![id] = e]
    /\ UNCHANGED <<args, ret, cache>>
    /\ HtmlFrame

(* the page loses the element of the id *)
RemoveElement ==
  \E id \in ElementIds :
    /\ document[id] # NoElement
    /\ document' = [document EXCEPT ![id] = NoElement]
    /\ UNCHANGED <<args, ret, cache>>
    /\ HtmlFrame

NextHtml == Construct \/ InsertElement \/ RemoveElement

SpecHtml == InitHtml /\ [][NextHtml]_vars

(* a step of the constructor: the page is as before *)
Constructs(id) == document' = document /\ args' = [id |-> id] /\ ret' # NoRet

CachedInstanceReturned ==
  \A id \in DOMAIN cache :
    Constructs(id) => /\ ret'.instance = cache[id]
                      /\ ret'.instance.element = cache[id].element
                      /\ ~ret'.lookup
                      /\ ~ret'.error
                      /\ cache' = cache

ThrowLeavesCache ==
  \A id \in ElementIds :
    Constructs(id) =>
      /\ ret'.error => (cache' = cache /\ ret'.lookup)
      /\ (ret # NoRet /\ args = [id |-> id] /\ ret.error) => ret'.lookup

OneInstancePerId ==
  \A id \in DOMAIN cache : id \in DOMAIN cache' /\ cache'[id] = cache[id]

(* C30: a construction for an id wrapped before returns the cached instance *)
(* with its element, without a lookup; a construction that throws leaves    *)
(* the cache as it was, and the next construction for the id looks the      *)
(* element up again; the instance cached for an id is never replaced.       *)
C30_OneWrapperPerId ==
  [][CachedInstanceReturned /\ ThrowLeavesCache /\ OneInstancePerId]_vars

(* the cached instance was returned although the page now holds another     *)
(* element of the id                                                        *)
C30_Witness ==
  /\ ret # NoRet
  /\ ~ret.lookup
  /\ args.id \in DOMAIN cache
  /\ ret.instance = cache[args.id]
  /\ document[args.id] # NoElement
  /\ document[args.id] # cache[args.id].element

====
